---------------------------- MODULE Spec2Model ----------------------------
(***************************************************************************)
(* Model of the quarter / scoring-run analyzer of dt_game_report           *)
(* (src/src/dt_game_report/lab_quarters_and_runs.py).                      *)
(*                                                                         *)
(* A Python dict is a TLA+ function whose DOMAIN is the set of keys;       *)
(* d.get(k) is Get(d, k).  Python's None is the value None.  A free-text   *)
(* field (text, play_type_text, short_desc) is the set of the keywords the *)
(* code searches for that occur in it, so `"kw" in text_lower` is          *)
(* "kw" \in pl.text.  A play's "index" is 0-based as in the code; TLA+     *)
(* sequences are 1-based, so the play with index i is plays_seq[i + 1].    *)
(***************************************************************************)
EXTENDS Integers, Sequences, FiniteSets, TLC

VARIABLES
    competitions,           \* summary["header"]["competitions"]
    plays_raw,              \* summary["plays"]
    plays_seq,              \* the normalized play sequence
    pc,                     \* "input", the statement run_analysis is at,
                            \* "done" | "failed"
    players_by_id,          \* the roster map the aggregator is given
    boxscore_players,       \* summary["boxscore"]["players"]
    team_id_to_side,        \* result of _build_team_maps
    teams_by_side,          \* result of _build_team_maps
    quarter_team_points,    \* result of compute_quarter_team_points
    quarter_team_totals,    \* result of compute_quarter_team_and_player_totals
    quarter_player_totals,  \* result of compute_quarter_team_and_player_totals
    unanswered_runs,        \* result of compute_unanswered_runs
    net_runs,               \* result of compute_net_runs
    highlight_runs,         \* result of compute_highlight_runs
    out_file,               \* fixtures/analysis/analysis_<game_id>.json
    schedule_events,        \* the events of the team schedule
    latest_id,              \* what find_latest_okc_game_id returns
    heap,                   \* the dict objects of the report context
    caller_ctx,             \* the object the caller passes as ctx
    ctx_given,              \* the value of the caller's context at the call
    analysis_doc,           \* the analysis document passed along
    returned_ctx,           \* the object the function returns
    mail_env,               \* GMAIL_USER, GMAIL_APP_PASSWORD, EMAIL_TO, --to
    recipient_list,         \* recipient_list of auto_report.run
    summary_file,           \* whether espn_summary_<id>.json exists
    effects                 \* what auto_report.run has done, in order

vars == <<competitions, plays_raw, plays_seq, pc, players_by_id,
          boxscore_players,
          team_id_to_side, teams_by_side,
          quarter_team_points, quarter_team_totals, quarter_player_totals,
          unanswered_runs, net_runs, highlight_runs, out_file,
          schedule_events, latest_id,
          heap, caller_ctx, ctx_given, analysis_doc, returned_ctx,
          mail_env, recipient_list, summary_file, effects>>

-----------------------------------------------------------------------------
(* Bounds of the model and the input alphabets.                            *)

MaxPlays == 6
MaxQPlays == 2
MaxCompetitors == 3

None == "None"
HomeId == "1"
AwayId == "2"
UnknownId == "9"
Sides == {"home", "away"}

\* Python truthiness of a str-or-None value.
Truthy(x) == x # None /\ x # ""

Get(d, k) == IF k \in DOMAIN d THEN d[k] ELSE None

EmptyDict == [k \in {} |-> None]

Put(d, k, v) == [x \in DOMAIN d \cup {k} |-> IF x = k THEN v ELSE d[x]]

\* An Optional[...] holding a record or an int: <<>> is None, <<x>> is x.
NoPlay == <<>>

Some(x) == <<x>>

-----------------------------------------------------------------------------
(* _build_team_maps                                                        *)

\* One iteration of the loop over competitors: an entry without a team id
\* or without a homeAway tag is skipped.
build_team_maps_step(m, c) ==
    IF ~Truthy(c.id) \/ ~Truthy(c.homeAway)
    THEN m
    ELSE [team_id_to_side |-> Put(m.team_id_to_side, c.id, c.homeAway),
          teams_by_side   |-> Put(m.teams_by_side, c.homeAway, c.id)]

RECURSIVE build_team_maps_loop(_, _, _)
build_team_maps_loop(competitors, i, m) ==
    IF i > Len(competitors) THEN m
    ELSE build_team_maps_loop(competitors, i + 1,
                           build_team_maps_step(m, competitors[i]))

\* Raises only when there is no competition at all.
_build_team_maps(comps) ==
    IF comps = <<>>
    THEN [error |-> TRUE, team_id_to_side |-> EmptyDict,
          teams_by_side |-> EmptyDict]
    ELSE LET m == build_team_maps_loop(comps[1].competitors, 1,
                      [team_id_to_side |-> EmptyDict,
                       teams_by_side |-> EmptyDict])
         IN  [error |-> FALSE, team_id_to_side |-> m.team_id_to_side,
              teams_by_side |-> m.teams_by_side]

\* fetch_espn_game._extract_team_side: the report builder's resolution of
\* the same competitor list.  Raises unless there are exactly two entries,
\* one tagged home and one tagged away.
_extract_team_side(competitors) ==
    IF Len(competitors) # 2 THEN [error |-> TRUE]
    ELSE IF ~(\E i \in 1..2 : competitors[i].homeAway = "home")
            \/ ~(\E i \in 1..2 : competitors[i].homeAway = "away")
         THEN [error |-> TRUE]
         ELSE [error |-> FALSE,
               home |-> competitors[CHOOSE i \in 1..2 :
                            competitors[i].homeAway = "home" /\
                            \A j \in 1..(i-1) : competitors[j].homeAway # "home"],
               away |-> competitors[CHOOSE i \in 1..2 :
                            competitors[i].homeAway = "away" /\
                            \A j \in 1..(i-1) : competitors[j].homeAway # "away"]]

-----------------------------------------------------------------------------
(* Helpers shared by the scans.                                            *)

\* side = team_id_to_side.get(team_id) if team_id else None
SideOf(map, team_id) == IF Truthy(team_id) THEN Get(map, team_id) ELSE None

-----------------------------------------------------------------------------
(* compute_unanswered_runs                                                 *)

min_points == 7

unanswered_init ==
    [current_side |-> None, current_team_id |-> None, current_points |-> 0,
     start_play |-> NoPlay, runs |-> <<>>]

unanswered_run(st, last_play) ==
    [side |-> st.current_side, team_id |-> st.current_team_id,
     points |-> st.current_points,
     start_index |-> st.start_play[1].index, end_index |-> last_play.index,
     start_period |-> st.start_play[1].period,
     end_period |-> last_play.period]

\* Mutant of unanswered_flush_run: the newest run goes to the front of the
\* list.
unanswered_flush_run_newest_first(st, last_play) ==
    [current_side |-> None, current_team_id |-> None, current_points |-> 0,
     start_play |-> NoPlay,
     runs |-> IF Truthy(st.current_side) /\ st.current_points >= min_points
                 /\ st.start_play # NoPlay
              THEN <<unanswered_run(st, last_play)>> \o st.runs
              ELSE st.runs]

\* Mutant of unanswered_flush_run: the threshold is exclusive.
unanswered_flush_run_strict(st, last_play) ==
    [current_side |-> None, current_team_id |-> None, current_points |-> 0,
     start_play |-> NoPlay,
     runs |-> IF Truthy(st.current_side) /\ st.current_points > min_points
                 /\ st.start_play # NoPlay
              THEN Append(st.runs, unanswered_run(st, last_play))
              ELSE st.runs]

\* flush_run(last_play): emit the open run if it reaches min_points, reset.
unanswered_flush_run(st, last_play) ==
    [current_side |-> None, current_team_id |-> None, current_points |-> 0,
     start_play |-> NoPlay,
     runs |-> IF Truthy(st.current_side) /\ st.current_points >= min_points
                 /\ st.start_play # NoPlay
              THEN Append(st.runs, unanswered_run(st, last_play))
              ELSE st.runs]

unanswered_open(st, pl, side) ==
    [st EXCEPT !.current_side = side, !.current_team_id = pl.team_id,
               !.current_points = pl.score_value, !.start_play = Some(pl)]

\* Mutant of unanswered_step: a change of side opens the new run on top of
\* the points of the run it ends, which is not flushed.
unanswered_step_carries_over(st, pl, map) ==
    IF ~pl.scoring_play THEN st
    ELSE LET side == SideOf(map, pl.team_id) IN
         IF side \notin Sides THEN unanswered_flush_run(st, pl)
         ELSE IF st.current_side = None THEN unanswered_open(st, pl, side)
         ELSE IF side = st.current_side
              THEN [st EXCEPT !.current_points = @ + pl.score_value]
              ELSE [unanswered_open(st, pl, side) EXCEPT
                       !.current_points = st.current_points + pl.score_value]

\* Mutant of unanswered_step: a change of side takes the run over, points
\* included, instead of closing it.
unanswered_step_takes_over(st, pl, map) ==
    IF ~pl.scoring_play THEN st
    ELSE LET side == SideOf(map, pl.team_id) IN
         IF side \notin Sides THEN unanswered_flush_run(st, pl)
         ELSE IF st.current_side = None THEN unanswered_open(st, pl, side)
         ELSE IF side = st.current_side
              THEN [st EXCEPT !.current_points = @ + pl.score_value]
              ELSE [st EXCEPT !.current_side = side,
                              !.current_team_id = pl.team_id,
                              !.current_points = @ + pl.score_value]

\* Mutant of unanswered_step: a scoring play of no resolvable side is
\* skipped like a non-scoring play.
unanswered_step_skips_unattributed(st, pl, map) ==
    IF ~pl.scoring_play THEN st
    ELSE LET side == SideOf(map, pl.team_id) IN
         IF side \notin Sides THEN st
         ELSE IF st.current_side = None THEN unanswered_open(st, pl, side)
         ELSE IF side = st.current_side
              THEN [st EXCEPT !.current_points = @ + pl.score_value]
              ELSE unanswered_open(unanswered_flush_run(st, pl), pl, side)

\* The body of the for loop, for one play.
unanswered_step(st, pl, map) ==
    IF ~pl.scoring_play THEN st
    ELSE LET side == SideOf(map, pl.team_id) IN
         IF side \notin Sides THEN unanswered_flush_run(st, pl)
         ELSE IF st.current_side = None THEN unanswered_open(st, pl, side)
         ELSE IF side = st.current_side
              THEN [st EXCEPT !.current_points = @ + pl.score_value]
              ELSE unanswered_open(unanswered_flush_run(st, pl), pl, side)

\* The scan state after the first k plays of the sequence.
RECURSIVE unanswered_scan(_, _, _)
unanswered_scan(plays, map, k) ==
    IF k = 0 THEN unanswered_init
    ELSE unanswered_step(unanswered_scan(plays, map, k - 1), plays[k], map)

\* if plays_seq: flush_run(plays_seq[-1])
unanswered_final(st, plays) ==
    IF plays # <<>> THEN unanswered_flush_run(st, plays[Len(plays)]) ELSE st

compute_unanswered_runs(plays, map) ==
    unanswered_final(unanswered_scan(plays, map, Len(plays)), plays).runs

-----------------------------------------------------------------------------
(* compute_net_runs                                                        *)

min_margin == 8

\* Mutant of margin_for_side: the home side's margin for either side.
margin_for_side_home(pl, side) == pl.home_score - pl.away_score

margin_for_side(pl, side) ==
    LET margin == pl.home_score - pl.away_score
    IN  IF side = "home" THEN margin ELSE -margin

\* start_margin_side or 0
OrZero(x) == IF x = <<>> THEN 0 ELSE x[1]

net_init ==
    [current_side |-> None, current_team_id |-> None, start_play |-> NoPlay,
     start_margin_side |-> <<>>, current_net |-> 0,
     last_scoring_play |-> NoPlay, runs |-> <<>>]

net_run(st, final_play) ==
    [side |-> st.current_side, team_id |-> st.current_team_id,
     net_points |-> st.current_net,
     start_index |-> st.start_play[1].index, end_index |-> final_play.index,
     start_period |-> st.start_play[1].period,
     end_period |-> final_play.period]

\* flush_run(final_play): emit the open run if its net reaches min_margin,
\* reset (last_scoring_play is not one of the nonlocals it resets).
net_flush_run(st, final_play) ==
    [st EXCEPT !.current_side = None, !.current_team_id = None,
               !.start_play = NoPlay, !.start_margin_side = <<>>,
               !.current_net = 0,
               !.runs = IF Truthy(st.current_side) /\ st.start_play # NoPlay
                           /\ st.current_net >= min_margin
                        THEN Append(st.runs, net_run(st, final_play))
                        ELSE st.runs]

net_open(st, pl, side) ==
    [st EXCEPT !.current_side = side, !.current_team_id = pl.team_id,
               !.start_play = Some(pl),
               !.start_margin_side = Some(margin_for_side(pl, side)),
               !.current_net = 0]

\* Mutant of net_step: an opposing basket that brings the relative margin
\* back to 0 already closes the run.
net_step_closes_at_zero(st0, pl, map) ==
    IF ~pl.scoring_play THEN st0
    ELSE LET st == [st0 EXCEPT !.last_scoring_play = Some(pl)]
             side_scorer == SideOf(map, pl.team_id)
         IN
         IF side_scorer \notin Sides THEN net_flush_run(st, pl)
         ELSE IF st.current_side = None THEN net_open(st, pl, side_scorer)
         ELSE LET cur_margin_side == margin_for_side(pl, st.current_side)
                  net_change == cur_margin_side - OrZero(st.start_margin_side)
              IN  IF side_scorer = st.current_side
                  THEN [st EXCEPT !.current_net = net_change]
                  ELSE IF net_change <= 0
                       THEN net_open(net_flush_run(st, pl), pl, side_scorer)
                       ELSE [st EXCEPT !.current_net = net_change]

\* Mutant of net_step: an opposing basket that leaves the run open does
\* not update current_net.
net_step_stale_net(st0, pl, map) ==
    IF ~pl.scoring_play THEN st0
    ELSE LET st == [st0 EXCEPT !.last_scoring_play = Some(pl)]
             side_scorer == SideOf(map, pl.team_id)
         IN
         IF side_scorer \notin Sides THEN net_flush_run(st, pl)
         ELSE IF st.current_side = None THEN net_open(st, pl, side_scorer)
         ELSE LET cur_margin_side == margin_for_side(pl, st.current_side)
                  net_change == cur_margin_side - OrZero(st.start_margin_side)
              IN  IF side_scorer = st.current_side
                  THEN [st EXCEPT !.current_net = net_change]
                  ELSE IF net_change < 0
                       THEN net_open(net_flush_run(st, pl), pl, side_scorer)
                       ELSE st

\* The body of the for loop, for one play.
net_step(st0, pl, map) ==
    IF ~pl.scoring_play THEN st0
    ELSE LET st == [st0 EXCEPT !.last_scoring_play = Some(pl)]
             side_scorer == SideOf(map, pl.team_id)
         IN
         IF side_scorer \notin Sides THEN net_flush_run(st, pl)
         ELSE IF st.current_side = None THEN net_open(st, pl, side_scorer)
         ELSE LET cur_margin_side == margin_for_side(pl, st.current_side)
                  net_change == cur_margin_side - OrZero(st.start_margin_side)
              IN  IF side_scorer = st.current_side
                  THEN [st EXCEPT !.current_net = net_change]
                  ELSE IF net_change < 0
                       THEN net_open(net_flush_run(st, pl), pl, side_scorer)
                       ELSE [st EXCEPT !.current_net = net_change]

\* The scan state after the first k plays of the sequence.
RECURSIVE net_scan(_, _, _)
net_scan(plays, map, k) ==
    IF k = 0 THEN net_init
    ELSE net_step(net_scan(plays, map, k - 1), plays[k], map)

\* if last_scoring_play is not None: flush_run(last_scoring_play)
net_final(st) ==
    IF st.last_scoring_play # NoPlay
    THEN net_flush_run(st, st.last_scoring_play[1])
    ELSE st

compute_net_runs(plays, map) ==
    net_final(net_scan(plays, map, Len(plays))).runs

-----------------------------------------------------------------------------
(* compute_highlight_runs                                                  *)

min_for == 8

max_against == 5

\* scoring_events = [pl for pl in plays_seq if pl.get("scoring_play")]
scoring_events_of(plays) == SelectSeq(plays, LAMBDA pl : pl.scoring_play)

highlight_init ==
    [team_a_score |-> 0, team_b_score |-> 0, max_net |-> 0,
     best_end_ev |-> NoPlay, best_for |-> 0, best_against |-> 0,
     broken |-> FALSE]

\* Mutant of highlight_inner_step: every qualifying event replaces the
\* candidate, whether or not its net is larger.
highlight_inner_step_last(st, ev, start_side, map) ==
    LET ev_side == Get(map, ev.team_id)
        pts == ev.score_value
        a == IF ev_side = start_side THEN st.team_a_score + pts
             ELSE st.team_a_score
        b == IF ev_side # start_side /\ ev_side \in Sides
             THEN st.team_b_score + pts ELSE st.team_b_score
        current_net == a - b
        better == current_net >= min_for /\ b <= max_against
    IN  [team_a_score |-> a, team_b_score |-> b,
         max_net      |-> IF better THEN current_net ELSE st.max_net,
         best_end_ev  |-> IF better THEN Some(ev) ELSE st.best_end_ev,
         best_for     |-> IF better THEN a ELSE st.best_for,
         best_against |-> IF better THEN b ELSE st.best_against,
         broken       |-> b > max_against]

\* The body of the inner loop, for the event ev; broken records the break.
highlight_inner_step(st, ev, start_side, map) ==
    LET ev_side == Get(map, ev.team_id)
        pts == ev.score_value
        a == IF ev_side = start_side THEN st.team_a_score + pts
             ELSE st.team_a_score
        b == IF ev_side # start_side /\ ev_side \in Sides
             THEN st.team_b_score + pts ELSE st.team_b_score
        current_net == a - b
        better == current_net >= min_for /\ b <= max_against
                  /\ current_net > st.max_net
    IN  [team_a_score |-> a, team_b_score |-> b,
         max_net      |-> IF better THEN current_net ELSE st.max_net,
         best_end_ev  |-> IF better THEN Some(ev) ELSE st.best_end_ev,
         best_for     |-> IF better THEN a ELSE st.best_for,
         best_against |-> IF better THEN b ELSE st.best_against,
         broken       |-> b > max_against]

\* for j in range(i, n): ... ; the state when the loop is left.
RECURSIVE highlight_inner(_, _, _, _, _)
highlight_inner(events, j, st, start_side, map) ==
    IF j > Len(events) \/ st.broken THEN st
    ELSE highlight_inner(events, j + 1,
             highlight_inner_step(st, events[j], start_side, map),
             start_side, map)

highlight_run(start_ev, start_side, st) ==
    [side |-> start_side, team_id |-> start_ev.team_id,
     points_for |-> st.best_for, points_against |-> st.best_against,
     net_points |-> st.best_for - st.best_against,
     start_index |-> start_ev.index, end_index |-> st.best_end_ev[1].index,
     start_period |-> start_ev.period,
     end_period |-> st.best_end_ev[1].period]

\* Mutant of highlight_outer_step: a start event inside the span of the run
\* emitted last is suppressed.
highlight_outer_step_no_overlap(runs, events, i, map) ==
    LET start_ev == events[i]
        start_side == Get(map, start_ev.team_id)
    IN  IF start_side \notin Sides THEN runs
        ELSE IF runs # <<>> /\ start_ev.index <= runs[Len(runs)].end_index
        THEN runs
        ELSE LET st == highlight_inner(events, i, highlight_init,
                                       start_side, map)
             IN  IF st.best_end_ev # NoPlay
                 THEN Append(runs, highlight_run(start_ev, start_side, st))
                 ELSE runs

\* The body of the outer loop, for the start event events[i].
highlight_outer_step(runs, events, i, map) ==
    LET start_ev == events[i]
        start_side == Get(map, start_ev.team_id)
    IN  IF start_side \notin Sides THEN runs
        ELSE LET st == highlight_inner(events, i, highlight_init,
                                       start_side, map)
             IN  IF st.best_end_ev # NoPlay
                 THEN Append(runs, highlight_run(start_ev, start_side, st))
                 ELSE runs

RECURSIVE highlight_outer(_, _, _)
highlight_outer(events, i, map) ==
    IF i = 0 THEN <<>>
    ELSE highlight_outer_step(highlight_outer(events, i - 1, map),
                              events, i, map)

compute_highlight_runs(plays, map) ==
    LET events == scoring_events_of(plays)
    IN  highlight_outer(events, Len(events), map)

-----------------------------------------------------------------------------
(* compute_quarter_team_and_player_totals                                  *)

StatNames == {"pts", "fgm", "fga", "tpm", "tpa", "ftm", "fta",
              "reb", "oreb", "dreb", "ast", "stl", "blk", "tov"}

_empty_stats == [n \in StatNames |-> 0]

\* stats[n] += 1 for every n in ones, and stats["pts"] += pts
Bump(stats, ones, pts) ==
    [n \in StatNames |-> stats[n] + (IF n \in ones THEN 1 ELSE 0)
                                  + (IF n = "pts" THEN pts ELSE 0)]

\* meta.get("side") or (team_id_to_side.get(team_id) if team_id else None)
\* with meta = players_by_id.get(player_id, {})
player_side(players, map, player_id) ==
    IF player_id \in DOMAIN players
    THEN IF Truthy(players[player_id].side) THEN players[player_id].side
         ELSE SideOf(map, players[player_id].team_id)
    ELSE None

player_team_id(players, player_id) ==
    IF player_id \in DOMAIN players THEN players[player_id].team_id ELSE None

\* Mutant of team_add: a side's block of a new period starts from the
\* block the side has in another period instead of from zero.
team_add_running(q, period, side, ones, pts) ==
    LET byside == IF period \in DOMAIN q.team THEN q.team[period]
                  ELSE EmptyDict
        others == {p \in DOMAIN q.team : side \in DOMAIN q.team[p]}
        stats  == IF side \in DOMAIN byside THEN byside[side]
                  ELSE IF others # {}
                       THEN q.team[CHOOSE p \in others : TRUE][side]
                       ELSE _empty_stats
    IN  [q EXCEPT !.team = Put(q.team, period,
                               Put(byside, side, Bump(stats, ones, pts)))]

\* get_team_stats(period, side) followed by the increments on the block
team_add(q, period, side, ones, pts) ==
    LET byside == IF period \in DOMAIN q.team THEN q.team[period]
                  ELSE EmptyDict
        stats  == IF side \in DOMAIN byside THEN byside[side]
                  ELSE _empty_stats
    IN  [q EXCEPT !.team = Put(q.team, period,
                               Put(byside, side, Bump(stats, ones, pts)))]

\* get_player_stats(period, player_id) followed by the increments
player_add(q, period, player_id, ones, pts, players, map) ==
    LET byid  == IF period \in DOMAIN q.player THEN q.player[period]
                 ELSE EmptyDict
        entry == IF player_id \in DOMAIN byid THEN byid[player_id]
                 ELSE [player_id |-> player_id,
                       team_id |-> player_team_id(players, player_id),
                       side |-> player_side(players, map, player_id),
                       stats |-> _empty_stats]
    IN  [q EXCEPT !.player = Put(q.player, period,
             Put(byid, player_id,
                 [entry EXCEPT !.stats = Bump(entry.stats, ones, pts)]))]

\* team_add when the side is truthy, nothing otherwise
team_add_if(q, period, side, ones, pts) ==
    IF Truthy(side) THEN team_add(q, period, side, ones, pts) ELSE q

\* FIELD GOALS & FREE THROWS: the free-throw branch
quarter_free_throw(q, pl, map, players) ==
    IF pl.athlete_ids = <<>> THEN q
    ELSE LET shooter_id == pl.athlete_ids[1]
             shooter_side == player_side(players, map, shooter_id)
             made == pl.scoring_play /\ pl.score_value > 0
             ones == {"fta"} \cup (IF made THEN {"ftm"} ELSE {})
             pts  == IF made THEN pl.score_value ELSE 0
         IN  player_add(team_add_if(q, pl.period, shooter_side, ones, pts),
                        pl.period, shooter_id, ones, pts, players, map)

\* Mutant of quarter_field_goal: the assist goes to the first actor, the
\* shooter.
quarter_field_goal_assist_to_shooter(q, pl, map, players) ==
    LET is_three == "three point" \in pl.text \/ "3pt" \in pl.short_desc
        shooter_id == IF pl.athlete_ids # <<>> THEN pl.athlete_ids[1]
                      ELSE None
        made == pl.scoring_play /\ pl.score_value > 0
        ones == {"fga"} \cup (IF is_three THEN {"tpa"} ELSE {})
                        \cup (IF made THEN {"fgm"} ELSE {})
                        \cup (IF made /\ is_three THEN {"tpm"} ELSE {})
        pts  == IF made THEN pl.score_value ELSE 0
        q1 == IF Truthy(shooter_id)
              THEN player_add(q, pl.period, shooter_id, ones, pts,
                              players, map)
              ELSE q
        side == IF Truthy(shooter_id) /\ shooter_id \in DOMAIN players
                THEN player_side(players, map, shooter_id)
                ELSE SideOf(map, pl.team_id)
        q2 == team_add_if(q1, pl.period, side, ones, pts)
    IN  IF made /\ "assists" \in pl.text /\ Len(pl.athlete_ids) > 1
        THEN LET assister_id == pl.athlete_ids[1]
             IN  team_add_if(
                     player_add(q2, pl.period, assister_id, {"ast"}, 0,
                                players, map),
                     pl.period, player_side(players, map, assister_id),
                     {"ast"}, 0)
        ELSE q2

\* FIELD GOALS & FREE THROWS: the field-goal branch, assists included
quarter_field_goal(q, pl, map, players) ==
    LET is_three == "three point" \in pl.text \/ "3pt" \in pl.short_desc
        shooter_id == IF pl.athlete_ids # <<>> THEN pl.athlete_ids[1]
                      ELSE None
        made == pl.scoring_play /\ pl.score_value > 0
        ones == {"fga"} \cup (IF is_three THEN {"tpa"} ELSE {})
                        \cup (IF made THEN {"fgm"} ELSE {})
                        \cup (IF made /\ is_three THEN {"tpm"} ELSE {})
        pts  == IF made THEN pl.score_value ELSE 0
        q1 == IF Truthy(shooter_id)
              THEN player_add(q, pl.period, shooter_id, ones, pts,
                              players, map)
              ELSE q
        side == IF Truthy(shooter_id) /\ shooter_id \in DOMAIN players
                THEN player_side(players, map, shooter_id)
                ELSE SideOf(map, pl.team_id)
        q2 == team_add_if(q1, pl.period, side, ones, pts)
    IN  IF made /\ "assists" \in pl.text /\ Len(pl.athlete_ids) > 1
        THEN LET assister_id == pl.athlete_ids[2]
             IN  team_add_if(
                     player_add(q2, pl.period, assister_id, {"ast"}, 0,
                                players, map),
                     pl.period, player_side(players, map, assister_id),
                     {"ast"}, 0)
        ELSE q2

quarter_shots(q, pl, map, players) ==
    IF pl.shooting_play /\ pl.points_attempted > 0
    THEN IF "free throw" \in pl.play_type_text \/ "free throw" \in pl.text
         THEN quarter_free_throw(q, pl, map, players)
         ELSE quarter_field_goal(q, pl, map, players)
    ELSE q

\* A stat credited to athlete_ids[k] and to that player's side.
quarter_credit(q, pl, k, ones, map, players) ==
    LET id == pl.athlete_ids[k]
    IN  team_add_if(player_add(q, pl.period, id, ones, 0, players, map),
                    pl.period, player_side(players, map, id), ones, 0)

\* Mutant of quarter_rebounds: a rebound counts in reb alone.
quarter_rebounds_reb_only(q, pl, map, players) ==
    IF "rebound" \in pl.play_type_text
    THEN IF pl.athlete_ids # <<>>
         THEN quarter_credit(q, pl, 1, {"reb"}, map, players)
         ELSE team_add_if(q, pl.period, SideOf(map, pl.team_id), {"reb"}, 0)
    ELSE q

\* REBOUNDS
quarter_rebounds(q, pl, map, players) ==
    IF "rebound" \in pl.play_type_text
    THEN LET ones == {"reb"} \cup (IF "offensive" \in pl.play_type_text
                                   THEN {"oreb"} ELSE {"dreb"})
         IN  IF pl.athlete_ids # <<>>
             THEN quarter_credit(q, pl, 1, ones, map, players)
             ELSE team_add_if(q, pl.period, SideOf(map, pl.team_id), ones, 0)
    ELSE q

\* TURNOVERS
quarter_turnovers(q, pl, map, players) ==
    IF "turnover" \in pl.play_type_text \/ "turnover" \in pl.text
       \/ "offensive foul" \in pl.text
    THEN IF pl.athlete_ids # <<>>
         THEN quarter_credit(q, pl, 1, {"tov"}, map, players)
         ELSE team_add_if(q, pl.period, SideOf(map, pl.team_id), {"tov"}, 0)
    ELSE q

\* STEALS
quarter_steals(q, pl, map, players) ==
    IF "steals" \in pl.text /\ Len(pl.athlete_ids) > 1
    THEN quarter_credit(q, pl, 2, {"stl"}, map, players)
    ELSE q

\* BLOCKS
quarter_blocks(q, pl, map, players) ==
    IF "blocks" \in pl.text /\ Len(pl.athlete_ids) > 1
    THEN quarter_credit(q, pl, 2, {"blk"}, map, players)
    ELSE q

\* The body of the for loop, for one play.
quarter_step(q, pl, map, players) ==
    IF pl.period = None THEN q
    ELSE quarter_blocks(
           quarter_steals(
             quarter_turnovers(
               quarter_rebounds(
                 quarter_shots(q, pl, map, players),
                 pl, map, players),
               pl, map, players),
             pl, map, players),
           pl, map, players)

\* The totals after the first k plays of the sequence.
RECURSIVE quarter_scan(_, _, _, _)
quarter_scan(plays, map, players, k) ==
    IF k = 0 THEN [team |-> EmptyDict, player |-> EmptyDict]
    ELSE quarter_step(quarter_scan(plays, map, players, k - 1), plays[k],
                      map, players)

compute_quarter_team_and_player_totals(plays, map, players) ==
    quarter_scan(plays, map, players, Len(plays))

-----------------------------------------------------------------------------
(* compute_quarter_team_points                                             *)

quarter_points_step(result, pl, map) ==
    IF ~pl.scoring_play \/ pl.period = None THEN result
    ELSE LET side == SideOf(map, pl.team_id)
         IN  IF side \notin Sides THEN result
             ELSE LET old == IF pl.period \in DOMAIN result
                             THEN result[pl.period]
                             ELSE [sd \in Sides |-> 0]
                  IN  Put(result, pl.period,
                          [old EXCEPT ![side] = @ + pl.score_value])

RECURSIVE quarter_points_scan(_, _, _)
quarter_points_scan(plays, map, k) ==
    IF k = 0 THEN EmptyDict
    ELSE quarter_points_step(quarter_points_scan(plays, map, k - 1),
                             plays[k], map)

compute_quarter_team_points(plays, map) ==
    quarter_points_scan(plays, map, Len(plays))

-----------------------------------------------------------------------------
(* Inputs.                                                                 *)

\* The competitor list of a well-formed summary.
ProperCompetitors ==
    << [id |-> HomeId, homeAway |-> "home"],
       [id |-> AwayId, homeAway |-> "away"] >>

\* Competitor entries, well-formed or lacking the team id or the role tag.
CompetitorChoices ==
    { [id |-> i, homeAway |-> h] :
        i \in {HomeId, AwayId, None}, h \in {"home", "away", None} }

\* The roster: two home players and one away player.
Roster ==
    [id \in {"h1", "h2", "a1"} |->
        IF id = "a1" THEN [team_id |-> AwayId, side |-> "away"]
        ELSE [team_id |-> HomeId, side |-> "home"]]

\* The values of the home baskets and of the away baskets.
HomeValues == {2, 3}

AwayValues == {2}

\* What a play of the run scans' input is made from: the team it names,
\* whether it scores and how much, and the side whose cumulative score it
\* raises.  Attributed baskets raise their own side's score; a basket whose
\* team id is not in the team map still moves the scoreboard.  The fields
\* that only the aggregator reads are left empty.
RunPlayChoices ==
    { [team_id |-> HomeId, scoring_play |-> TRUE, score_value |-> v,
       credit |-> "home"] : v \in HomeValues }
    \cup
    { [team_id |-> AwayId, scoring_play |-> TRUE, score_value |-> v,
       credit |-> "away"] : v \in AwayValues }
    \cup
    { [team_id |-> UnknownId, scoring_play |-> TRUE, score_value |-> 2,
       credit |-> "away"],
      [team_id |-> HomeId, scoring_play |-> FALSE, score_value |-> 0,
       credit |-> None] }

last_home(plays) == IF plays = <<>> THEN 0 ELSE plays[Len(plays)].home_score

last_away(plays) == IF plays = <<>> THEN 0 ELSE plays[Len(plays)].away_score

RunPlay(plays, c) ==
    [index |-> Len(plays), period |-> "1",
     home_score |-> last_home(plays)
                    + (IF c.credit = "home" THEN c.score_value ELSE 0),
     away_score |-> last_away(plays)
                    + (IF c.credit = "away" THEN c.score_value ELSE 0),
     team_id |-> c.team_id, scoring_play |-> c.scoring_play,
     score_value |-> c.score_value, text |-> {}, athlete_ids |-> <<>>,
     play_type_text |-> {}, shooting_play |-> FALSE,
     points_attempted |-> 0, short_desc |-> {}]

\* The net-run scan reads the scoreboard, not score_value: a play of its
\* input also says by how much the scoreboard of its side moves.  After
\* plays whose score field was carried over by the normalizer, the board
\* catches up in one jump.
NetPlayChoices ==
    { [team_id |-> HomeId, score_value |-> 2, board |-> 2],
      [team_id |-> HomeId, score_value |-> 3, board |-> 6],
      [team_id |-> AwayId, score_value |-> 2, board |-> 2],
      [team_id |-> AwayId, score_value |-> 2, board |-> 12] }

NetPlay(plays, c) ==
    [index |-> Len(plays), period |-> "1",
     home_score |-> last_home(plays)
                    + (IF c.team_id = HomeId THEN c.board ELSE 0),
     away_score |-> last_away(plays)
                    + (IF c.team_id = AwayId THEN c.board ELSE 0),
     team_id |-> c.team_id, scoring_play |-> TRUE,
     score_value |-> c.score_value, text |-> {}, athlete_ids |-> <<>>,
     play_type_text |-> {}, shooting_play |-> FALSE,
     points_attempted |-> 0, short_desc |-> {}]

\* The plays of the aggregator's input that move the shooting and
\* rebounding counters: field goals and free throws, made and missed, for
\* two and for three, and rebounds at either end.
StatKinds ==
    { [scoring_play |-> TRUE, score_value |-> 2, shooting_play |-> TRUE,
       points_attempted |-> 2, text |-> {}, play_type_text |-> {}],
      [scoring_play |-> TRUE, score_value |-> 3, shooting_play |-> TRUE,
       points_attempted |-> 3, text |-> {"three point"},
       play_type_text |-> {}],
      [scoring_play |-> FALSE, score_value |-> 0, shooting_play |-> TRUE,
       points_attempted |-> 3, text |-> {"three point"},
       play_type_text |-> {}],
      [scoring_play |-> TRUE, score_value |-> 1, shooting_play |-> TRUE,
       points_attempted |-> 1, text |-> {},
       play_type_text |-> {"free throw"}],
      [scoring_play |-> FALSE, score_value |-> 0, shooting_play |-> TRUE,
       points_attempted |-> 1, text |-> {},
       play_type_text |-> {"free throw"}],
      [scoring_play |-> FALSE, score_value |-> 0, shooting_play |-> FALSE,
       points_attempted |-> 0, text |-> {},
       play_type_text |-> {"rebound", "offensive"}],
      [scoring_play |-> FALSE, score_value |-> 0, shooting_play |-> FALSE,
       points_attempted |-> 0, text |-> {},
       play_type_text |-> {"rebound", "defensive"}] }

\* Plays of the net-run scan whose record moves both scores: the feed has
\* left out the other side's basket and the scoreboard of the next play
\* shows it.  Scores only go up, and only on scoring plays.
BoardPlayChoices ==
    { [team_id |-> HomeId, scoring_play |-> TRUE, score_value |-> 2,
       home |-> 2, away |-> 0],
      [team_id |-> AwayId, scoring_play |-> TRUE, score_value |-> 2,
       home |-> 0, away |-> 2],
      [team_id |-> HomeId, scoring_play |-> TRUE, score_value |-> 2,
       home |-> 2, away |-> 3],
      [team_id |-> AwayId, scoring_play |-> TRUE, score_value |-> 3,
       home |-> 2, away |-> 3],
      [team_id |-> HomeId, scoring_play |-> FALSE, score_value |-> 0,
       home |-> 0, away |-> 0] }

BoardPlay(plays, c) ==
    [index |-> Len(plays), period |-> "1",
     home_score |-> last_home(plays) + c.home,
     away_score |-> last_away(plays) + c.away,
     team_id |-> c.team_id, scoring_play |-> c.scoring_play,
     score_value |-> c.score_value, text |-> {}, athlete_ids |-> <<>>,
     play_type_text |-> {}, shooting_play |-> FALSE,
     points_attempted |-> 0, short_desc |-> {}]

\* Plays of the run scans that make runs follow each other within a few
\* plays: records whose score value is the jump of the scoreboard since
\* the last record the feed had (4 or 9 points), a plain basket, and a
\* scoring play of a team that is in no map.
OrderPlayChoices ==
    { [team_id |-> HomeId, scoring_play |-> TRUE, score_value |-> 4,
       home |-> 4, away |-> 0],
      [team_id |-> AwayId, scoring_play |-> TRUE, score_value |-> 4,
       home |-> 0, away |-> 4],
      [team_id |-> AwayId, scoring_play |-> TRUE, score_value |-> 9,
       home |-> 0, away |-> 9],
      [team_id |-> HomeId, scoring_play |-> TRUE, score_value |-> 2,
       home |-> 2, away |-> 0],
      [team_id |-> UnknownId, scoring_play |-> TRUE, score_value |-> 2,
       home |-> 0, away |-> 2] }

\* What a play of the aggregator's input is made from: its kind ...
QuarterKinds ==
    { \* a made two-point field goal
      [scoring_play |-> TRUE, score_value |-> 2, shooting_play |-> TRUE,
       points_attempted |-> 2, text |-> {}, play_type_text |-> {}],
      \* a made, assisted three-pointer
      [scoring_play |-> TRUE, score_value |-> 3, shooting_play |-> TRUE,
       points_attempted |-> 3, text |-> {"three point", "assists"},
       play_type_text |-> {}],
      \* a missed, blocked field goal
      [scoring_play |-> FALSE, score_value |-> 0, shooting_play |-> TRUE,
       points_attempted |-> 2, text |-> {"blocks"}, play_type_text |-> {}],
      \* a made free throw
      [scoring_play |-> TRUE, score_value |-> 1, shooting_play |-> TRUE,
       points_attempted |-> 1, text |-> {},
       play_type_text |-> {"free throw"}],
      \* a basket whose record has no shootingPlay / pointsAttempted
      [scoring_play |-> TRUE, score_value |-> 2, shooting_play |-> FALSE,
       points_attempted |-> 0, text |-> {}, play_type_text |-> {}],
      \* an offensive rebound
      [scoring_play |-> FALSE, score_value |-> 0, shooting_play |-> FALSE,
       points_attempted |-> 0, text |-> {},
       play_type_text |-> {"rebound", "offensive"}],
      \* a turnover forced by a steal
      [scoring_play |-> FALSE, score_value |-> 0, shooting_play |-> FALSE,
       points_attempted |-> 0, text |-> {"turnover", "steals"},
       play_type_text |-> {"turnover"}] }

\* ... and the team and the athletes it names.
QuarterActors ==
    { [team_id |-> HomeId, athlete_ids |-> <<"h1", "h2">>],
      [team_id |-> AwayId, athlete_ids |-> <<"a1", "h1">>],
      [team_id |-> HomeId, athlete_ids |-> <<>>],
      [team_id |-> UnknownId, athlete_ids |-> <<"u9">>] }

Periods == {"1", "2", None}

QuarterPlay(plays, k, a, per) ==
    [index |-> Len(plays), period |-> per,
     home_score |-> last_home(plays)
                    + (IF a.team_id = HomeId THEN k.score_value ELSE 0),
     away_score |-> last_away(plays)
                    + (IF a.team_id = AwayId THEN k.score_value ELSE 0),
     team_id |-> a.team_id, scoring_play |-> k.scoring_play,
     score_value |-> k.score_value, text |-> k.text,
     athlete_ids |-> a.athlete_ids, play_type_text |-> k.play_type_text,
     shooting_play |-> k.shooting_play,
     points_attempted |-> k.points_attempted, short_desc |-> {}]

\* The plays of the aggregator's input that decide where assists go:
\* baskets and misses, free throws and field goals, whose text names an
\* assist or not ...
AssistKinds ==
    { \* a made, assisted three-pointer
      [scoring_play |-> TRUE, score_value |-> 3, shooting_play |-> TRUE,
       points_attempted |-> 3, text |-> {"three point", "assists"},
       play_type_text |-> {}],
      \* a made two-point field goal, unassisted
      [scoring_play |-> TRUE, score_value |-> 2, shooting_play |-> TRUE,
       points_attempted |-> 2, text |-> {}, play_type_text |-> {}],
      \* a missed field goal whose text has the word
      [scoring_play |-> FALSE, score_value |-> 0, shooting_play |-> TRUE,
       points_attempted |-> 2, text |-> {"assists"}, play_type_text |-> {}],
      \* a made free throw whose text has the word
      [scoring_play |-> TRUE, score_value |-> 1, shooting_play |-> TRUE,
       points_attempted |-> 1, text |-> {"assists"},
       play_type_text |-> {"free throw"}],
      \* an assisted basket whose record has no shootingPlay
      [scoring_play |-> TRUE, score_value |-> 2, shooting_play |-> FALSE,
       points_attempted |-> 0, text |-> {"assists"},
       play_type_text |-> {}] }

\* ... with two actors of one team, of two teams, a single actor, and a
\* second actor missing from the roster.
AssistActors ==
    { [team_id |-> HomeId, athlete_ids |-> <<"h1", "h2">>],
      [team_id |-> AwayId, athlete_ids |-> <<"a1", "h1">>],
      [team_id |-> HomeId, athlete_ids |-> <<"h1">>],
      [team_id |-> HomeId, athlete_ids |-> <<"h2", "u9">>] }

AssistPeriods == {"1", None}

\* The plays of the aggregator's input that decide which period's buckets
\* are written: every kind of play, by actors of either team or by a team
\* alone, in one of two periods.
PeriodActors ==
    { [team_id |-> HomeId, athlete_ids |-> <<"h1", "h2">>],
      [team_id |-> AwayId, athlete_ids |-> <<"a1", "h1">>],
      [team_id |-> HomeId, athlete_ids |-> <<>>] }

PlayedPeriods == {"1", "2"}

-----------------------------------------------------------------------------
(* _extract_basic_play_sequence.  A JSON value of the summary is a record  *)
(* [kind, val]: kind says which Python type json.load gave it, val is the  *)
(* value (a text's val is its set of keywords, a dict's val a function     *)
(* from keys to JSON values, a list's val a sequence of JSON values).      *)
(* p.get(k) of a key that is absent is None, like the JSON null.           *)

\* The numbers a numeric string of the input may spell.
MaxNumber == 5

JNull == [kind |-> "null", val |-> <<>>]

JInt(n) == [kind |-> "int", val |-> n]

JStr(s) == [kind |-> "str", val |-> s]

JText(t) == [kind |-> "text", val |-> t]

JBool(b) == [kind |-> "bool", val |-> b]

JDict(d) == [kind |-> "dict", val |-> d]

JList(l) == [kind |-> "list", val |-> l]

\* not x
Falsy(j) ==
    \/ j.kind = "null"
    \/ j.kind = "bool" /\ ~j.val
    \/ j.kind = "int" /\ j.val = 0
    \/ j.kind = "str" /\ j.val = ""
    \/ j.kind = "text" /\ j.val = {}
    \/ j.kind = "dict" /\ DOMAIN j.val = {}
    \/ j.kind = "list" /\ j.val = <<>>

\* d.get(key) of a dict
JGet(d, key) == IF key \in DOMAIN d THEN d[key] ELSE JNull

\* (x or {}), as far as .get can be called on it: <<the dict>>, or <<>>
\* when x is truthy and no dict, and .get raises AttributeError.
or_dict(j) ==
    IF Falsy(j) THEN <<EmptyDict>>
    ELSE IF j.kind = "dict" THEN <<j.val>>
    ELSE <<>>

\* int(x): <<the integer>>, or <<>> when int raises TypeError or ValueError.
int_of(j) ==
    IF j.kind = "int" THEN <<j.val>>
    ELSE IF j.kind = "bool" THEN <<IF j.val THEN 1 ELSE 0>>
    ELSE IF j.kind = "str"
         THEN IF \E n \in 0..MaxNumber : ToString(n) = j.val
              THEN <<CHOOSE n \in 0..MaxNumber : ToString(n) = j.val>>
              ELSE <<>>
    ELSE <<>>

\* str(x) of an id
str_of(j) == IF j.kind = "int" THEN ToString(j.val) ELSE j.val

\* Mutant of score_or_last: a score that cannot be read counts as 0.
score_or_zero(j, last) ==
    IF int_of(j) # <<>> THEN int_of(j)[1] ELSE 0

\* try: home_score = int(home_score) / except Exception: home_score = last
score_or_last(j, last) ==
    IF int_of(j) # <<>> THEN int_of(j)[1] ELSE last

Max3(a, b, c) ==
    IF a >= b /\ a >= c THEN a ELSE IF b >= c THEN b ELSE c

\* Mutant of score_val_of: the fallback looks at the home score only.
score_val_of_home_delta(raw_sv, home_score, away_score, lh, la) ==
    IF int_of(raw_sv) # <<>> THEN int_of(raw_sv)[1]
    ELSE Max3(home_score - lh, 0, 0)

\* try: score_val = int(raw_sv) / except: max(delta_home, delta_away, 0)
score_val_of(raw_sv, home_score, away_score, lh, la) ==
    IF int_of(raw_sv) # <<>> THEN int_of(raw_sv)[1]
    ELSE Max3(home_score - lh, away_score - la, 0)

\* p.get("participants") or p.get("athletesInvolved") or []
participants_of(p) ==
    IF ~Falsy(p.participants) THEN p.participants
    ELSE IF ~Falsy(p.athletesInvolved) THEN p.athletesInvolved
    ELSE JList(<<>>)

\* The body of the loop over participants: <<the id appended>> or <<>>.
athlete_id_of(part) ==
    LET athlete == IF part.kind = "dict" THEN JGet(part.val, "athlete")
                   ELSE JNull
    IN  IF athlete.kind = "dict" /\ JGet(athlete.val, "id").kind # "null"
        THEN <<str_of(JGet(athlete.val, "id"))>>
        ELSE IF part.kind = "dict" /\ JGet(part.val, "id").kind # "null"
        THEN <<str_of(JGet(part.val, "id"))>>
        ELSE <<>>

RECURSIVE athlete_ids_of(_)
athlete_ids_of(parts) ==
    IF parts = <<>> THEN <<>>
    ELSE athlete_id_of(Head(parts)) \o athlete_ids_of(Tail(parts))

\* A free-text field: x or "".
text_of(j) == IF Falsy(j) THEN {} ELSE j.val

\* The body of the loop over plays_raw, for the play p at position idx:
\* <<the record appended>>, or <<>> when a statement raises.
extract_play(p, idx, lh, la) ==
    LET period_d == or_dict(p.period)
        clock_d == or_dict(p.clock)
        team_d == or_dict(p.team)
        type_d == or_dict(p.type)
        participants == participants_of(p)
        period == JGet(period_d[1], "number")
        team_id == JGet(team_d[1], "id")
        home_score == score_or_last(p.homeScore, lh)
        away_score == score_or_last(p.awayScore, la)
        scoring_play == ~Falsy(p.scoringPlay)
        score_val == score_val_of(p.scoreValue, home_score, away_score,
                                  lh, la)
    IN  IF \/ period_d = <<>>
           \/ clock_d = <<>>
           \/ team_d = <<>>
           \/ participants.kind \in {"int", "bool"}
           \/ type_d = <<>>
           \/ period.kind # "null" /\ int_of(period) = <<>>
        THEN <<>>
        ELSE << [index |-> idx,
                 period |-> IF period.kind = "null" THEN None
                            ELSE ToString(int_of(period)[1]),
                 home_score |-> home_score,
                 away_score |-> away_score,
                 team_id |-> IF team_id.kind = "null" THEN None
                             ELSE str_of(team_id),
                 scoring_play |-> scoring_play,
                 score_value |-> IF scoring_play THEN score_val ELSE 0,
                 text |-> text_of(p.text),
                 athlete_ids |-> IF participants.kind = "list"
                                 THEN athlete_ids_of(participants.val)
                                 ELSE <<>>,
                 play_type_text |-> text_of(JGet(type_d[1], "text")),
                 shooting_play |-> ~Falsy(p.shootingPlay),
                 points_attempted |->
                     IF int_of(p.pointsAttempted) # <<>>
                     THEN int_of(p.pointsAttempted)[1] ELSE 0,
                 short_desc |-> text_of(p.shortDescription)] >>

\* The loop over the first k raw plays: error says that a play raised,
\* which ends the loop and the analysis; seq is what was appended.
RECURSIVE extract_scan(_, _)
extract_scan(raw, k) ==
    IF k = 0 THEN [error |-> FALSE, seq |-> <<>>]
    ELSE LET prev == extract_scan(raw, k - 1)
         IN  IF prev.error THEN prev
             ELSE LET r == extract_play(raw[k], k - 1, last_home(prev.seq),
                                        last_away(prev.seq))
                  IN  IF r = <<>> THEN [error |-> TRUE, seq |-> prev.seq]
                      ELSE [error |-> FALSE, seq |-> Append(prev.seq, r[1])]

_extract_basic_play_sequence(raw) == extract_scan(raw, Len(raw))

\* The bound of the raw play list.
MaxRawPlays == 2

\* A play record as the feed writes it when nothing is wrong.
WellFormedPlay ==
    [period |-> JDict([number |-> JInt(1)]),
     clock |-> JDict([displayValue |-> JStr("6:32")]),
     text |-> JText({}),
     team |-> JDict([id |-> JStr(HomeId)]),
     homeScore |-> JInt(2),
     awayScore |-> JInt(0),
     scoringPlay |-> JBool(TRUE),
     scoreValue |-> JInt(2),
     participants |->
         JList(<< JDict([athlete |-> JDict([id |-> JStr("h1")])]) >>),
     athletesInvolved |-> JNull,
     type |-> JDict([id |-> JStr("92"), text |-> JText({})]),
     shootingPlay |-> JBool(TRUE),
     pointsAttempted |-> JInt(2),
     shortDescription |-> JText({})]

\* Play records whose score fields are present, absent or not numbers at
\* all, on scoring plays and on others.
RawScoreChoices ==
    { [WellFormedPlay EXCEPT !.homeScore = h, !.awayScore = a,
                             !.scoreValue = v, !.scoringPlay = s] :
        h \in {JNull, JStr("abc"), JInt(2)},
        a \in {JNull, JInt(3)},
        v \in {JNull, JInt(2)},
        s \in {JBool(TRUE), JBool(FALSE)} }

\* Play records with one other field absent or of an unexpected type, or
\* a number spelled as a string.
RawFieldChoices ==
    { [WellFormedPlay EXCEPT !.period = x] :
        x \in {JNull, JInt(2), JDict([number |-> JStr("2")]),
               JDict([number |-> JStr("OT")])} }
    \cup
    { [WellFormedPlay EXCEPT !.clock = x] : x \in {JNull, JStr("6:32")} }
    \cup
    { [WellFormedPlay EXCEPT !.team = x] :
        x \in {JNull, JStr(HomeId), JDict([id |-> JInt(2)])} }
    \cup
    { [WellFormedPlay EXCEPT !.type = x] : x \in {JNull, JStr("shot")} }
    \cup
    { [WellFormedPlay EXCEPT !.participants = x] :
        x \in {JInt(5), JList(<<JStr("h1")>>),
               JList(<<JDict([id |-> JInt(7)])>>)} }
    \cup
    { [WellFormedPlay EXCEPT !.participants = JNull,
          !.athletesInvolved = JList(<<JDict([id |-> JStr("a1")])>>)],
      [WellFormedPlay EXCEPT !.homeScore = JStr("5")],
      [WellFormedPlay EXCEPT !.scoreValue = JStr("x")],
      [WellFormedPlay EXCEPT !.pointsAttempted = JStr("x")],
      [WellFormedPlay EXCEPT !.text = JNull, !.shortDescription = JNull,
                             !.pointsAttempted = JNull] }

RawPlayChoices == RawScoreChoices \cup RawFieldChoices

-----------------------------------------------------------------------------
(* _build_player_maps.  summary["boxscore"]["players"] is a list of team   *)
(* blocks [team, statistics]; statistics is a list of stat blocks, each a  *)
(* list of athlete entries [id, name].  team and id are JSON values (a     *)
(* string, a number or null) which the code passes through str(); name     *)
(* stands for displayName, shortName and jersey, which are copied alike.   *)

\* The most team blocks, stat blocks and athlete entries of a box score,
\* taken together.
MaxBoxscore == 6

\* players_by_id[aid_str] = {...}, overwriting what is there.
player_register_last(players, ath, tid, side) ==
    IF ath.id.kind = "null" THEN players
    ELSE LET aid_str == str_of(ath.id)
         IN  Put(players, aid_str,
                 [id |-> aid_str, name |-> ath.name,
                  team_id |-> tid, side |-> side])

\* The body of the innermost loop: skip a missing id, skip an id that is
\* registered already, else register the athlete under the block's team.
player_register(players, ath, tid, side) ==
    IF ath.id.kind = "null" THEN players
    ELSE LET aid_str == str_of(ath.id)
         IN  IF aid_str \in DOMAIN players THEN players
             ELSE Put(players, aid_str,
                      [id |-> aid_str, name |-> ath.name,
                       team_id |-> tid, side |-> side])

\* for ath_entry in stat_block.get("athletes") or []
RECURSIVE player_athletes(_, _, _, _, _)
player_athletes(players, athletes, tid, side, n) ==
    IF n = 0 THEN players
    ELSE player_register(player_athletes(players, athletes, tid, side, n - 1),
                         athletes[n], tid, side)

\* for stat_block in team_block.get("statistics") or []
RECURSIVE player_stat_blocks(_, _, _, _, _)
player_stat_blocks(players, statistics, tid, side, n) ==
    IF n = 0 THEN players
    ELSE player_athletes(
             player_stat_blocks(players, statistics, tid, side, n - 1),
             statistics[n], tid, side, Len(statistics[n]))

\* tid = str(team.get("id")) if team.get("id") is not None else None
team_block_id(team_block) ==
    IF team_block.team.kind = "null" THEN None ELSE str_of(team_block.team)

\* for team_block in teams_players
RECURSIVE player_team_blocks(_, _, _)
player_team_blocks(teams_players, map, n) ==
    IF n = 0 THEN EmptyDict
    ELSE LET tid == team_block_id(teams_players[n])
         IN  player_stat_blocks(player_team_blocks(teams_players, map, n - 1),
                                teams_players[n].statistics, tid,
                                Get(map, tid),
                                Len(teams_players[n].statistics))

_build_player_maps(teams_players, map) ==
    player_team_blocks(teams_players, map, Len(teams_players))

\* Team ids of the box score: the home team's as a string, the away team's
\* as a number, and a missing one.
TeamIdChoices == {JStr(HomeId), JInt(2), JNull}

\* Athlete entries: the same id as a string and as a number under two
\* names, a second id, and an entry without an id.
AthleteChoices ==
    { [id |-> JStr("4"), name |-> "n1"], [id |-> JInt(4), name |-> "n2"],
      [id |-> JStr("5"), name |-> "n1"], [id |-> JNull, name |-> "n1"] }

RECURSIVE CountAthletes(_, _)
CountAthletes(statistics, n) ==
    IF n = 0 THEN 0
    ELSE CountAthletes(statistics, n - 1) + Len(statistics[n])

\* The team blocks, stat blocks and athlete entries of a box score.
RECURSIVE CountBoxscore(_, _)
CountBoxscore(teams_players, n) ==
    IF n = 0 THEN 0
    ELSE CountBoxscore(teams_players, n - 1)
         + 1 + Len(teams_players[n].statistics)
         + CountAthletes(teams_players[n].statistics,
                         Len(teams_players[n].statistics))

BoxscoreSize == CountBoxscore(boxscore_players, Len(boxscore_players))

-----------------------------------------------------------------------------
(* fetch_espn_data.find_latest_okc_game_id.  An event of the schedule is   *)
(* modelled by what the loop reads from it: its game id (from id or uid),  *)
(* whether a competitor is the Thunder, the parsed date (<<>> when it is   *)
(* missing or no ISO date), status.type.completed, whether the state is    *)
(* post, and boxscoreAvailable.  Dates are numbers; all carry an offset.   *)

MaxEvents == 3

\* now = datetime.now(timezone.utc)
NowTime == 2

\* The entries of a candidate list that have a box score.
with_boxscore(candidates) ==
    SelectSeq(candidates, LAMBDA c : c.boxscore)

\* pool.sort(key=event time, reverse=True); pool[0]: the sort is stable, so
\* of the entries with the latest time the first of the list is taken.
latest_of(pool) ==
    pool[CHOOSE i \in 1..Len(pool) :
             /\ \A j \in 1..Len(pool) : pool[j].time <= pool[i].time
             /\ \A j \in 1..(i - 1) : pool[j].time < pool[i].time]

\* _pick_latest without the preference for a box score.
pick_latest_any(candidates) ==
    IF candidates = <<>> THEN <<>>
    ELSE << latest_of(candidates) >>

\* _pick_latest(candidates): None, or the latest of those with a box score,
\* or of all when none has one.
pick_latest(candidates) ==
    IF candidates = <<>> THEN <<>>
    ELSE << latest_of(IF with_boxscore(candidates) # <<>>
                      THEN with_boxscore(candidates) ELSE candidates) >>

\* What the loop appends for an event it does not skip.
candidate_of(ev) ==
    [game_id |-> ev.id[1], time |-> ev.time[1], boxscore |-> ev.boxscore]

\* The events the loop reaches the three lists with.
eligible(evs) ==
    SelectSeq(evs, LAMBDA ev : ev.id # <<>> /\ ev.okc /\ ev.time # <<>>)

RECURSIVE candidates_of(_, _)
candidates_of(evs, n) ==
    IF n = 0 THEN <<>>
    ELSE Append(candidates_of(evs, n - 1), candidate_of(evs[n]))

completed_of(evs) ==
    LET sel == SelectSeq(eligible(evs), LAMBDA ev : ev.completed)
    IN  candidates_of(sel, Len(sel))

post_of(evs) ==
    LET sel == SelectSeq(eligible(evs),
                         LAMBDA ev : ~ev.completed /\ ev.post)
    IN  candidates_of(sel, Len(sel))

past_of(evs) ==
    LET sel == SelectSeq(eligible(evs), LAMBDA ev : ev.time[1] <= NowTime)
    IN  candidates_of(sel, Len(sel))

\* chosen = _pick_latest(completed) or _pick_latest(post)
\*          or _pick_latest(past); <<>> where the function raises.
find_latest_okc_game_id(evs) ==
    IF evs = <<>> THEN <<>>
    ELSE LET chosen ==
                 IF pick_latest(completed_of(evs)) # <<>>
                 THEN pick_latest(completed_of(evs))
                 ELSE IF pick_latest(post_of(evs)) # <<>>
                 THEN pick_latest(post_of(evs))
                 ELSE pick_latest(past_of(evs))
         IN  IF chosen = <<>> THEN <<>> ELSE << chosen[1].game_id >>

\* Events of the schedule: completed Thunder games early and late, with
\* and without a box score, one without a readable date, one without an
\* id, a completed game of two other teams, a game that is over but not
\* marked completed, and a game still to be played.
EventChoices ==
    { [has_id |-> TRUE, okc |-> TRUE, time |-> <<t>>, completed |-> TRUE,
       post |-> TRUE, boxscore |-> b] : t \in {1, 2}, b \in BOOLEAN }
    \cup
    { [has_id |-> TRUE, okc |-> TRUE, time |-> <<>>, completed |-> TRUE,
       post |-> TRUE, boxscore |-> TRUE],
      [has_id |-> FALSE, okc |-> TRUE, time |-> <<3>>, completed |-> TRUE,
       post |-> TRUE, boxscore |-> TRUE],
      [has_id |-> TRUE, okc |-> FALSE, time |-> <<3>>, completed |-> TRUE,
       post |-> TRUE, boxscore |-> TRUE],
      [has_id |-> TRUE, okc |-> TRUE, time |-> <<2>>, completed |-> FALSE,
       post |-> TRUE, boxscore |-> TRUE],
      [has_id |-> TRUE, okc |-> TRUE, time |-> <<3>>, completed |-> FALSE,
       post |-> FALSE, boxscore |-> FALSE] }

-----------------------------------------------------------------------------
(* quarters_and_runs_html_integration: the report context.  The heap is a  *)
(* sequence of dict objects, an address is a position in it; a dict maps   *)
(* keys to values, and a value is a reference to a dict object or a plain  *)
(* value, which is a string ("None", "{}" and "[]" for the empty ones).    *)

VRef(a) == [kind |-> "ref", val |-> a]

VVal(x) == [kind |-> "val", val |-> x]

\* The keys the function writes, in the order of its assignments.
QaKeys ==
    << "quarter_team_points", "quarter_team_totals", "quarter_player_totals",
       "unanswered_runs", "net_runs", "highlight_runs", "teams",
       "game_id", "date", "season" >>

\* analysis.get(key) or {} / or [] / analysis.get(key)
qa_value(an, key) ==
    IF key \in {"game_id", "date", "season"} THEN Get(an, key)
    ELSE IF Get(an, key) \in {None, "{}", "[]"}
         THEN IF key \in {"unanswered_runs", "net_runs", "highlight_runs"}
              THEN "[]" ELSE "{}"
         ELSE an[key]

\* qa[key] = ... for the first n keys
RECURSIVE qa_assign(_, _, _)
qa_assign(qa, an, n) ==
    IF n = 0 THEN qa
    ELSE Put(qa_assign(qa, an, n - 1), QaKeys[n],
             VVal(qa_value(an, QaKeys[n])))

\* augment_report_context_with_quarters_and_runs(ctx, analysis) on the heap
\* h: ctx = dict(ctx) makes a new dict with the same values, references
\* included; setdefault makes a new dict only when the key is not there;
\* the item assignments raise when the entry is no dict.
augment_report_context_with_quarters_and_runs(h, ctx, an) ==
    LET new == Len(h) + 1
        h1 == Append(h, h[ctx])
        h2 == IF "quarters_and_runs" \in DOMAIN h1[new] THEN h1
              ELSE Append([h1 EXCEPT ![new] =
                               Put(@, "quarters_and_runs", VRef(new + 1))],
                          EmptyDict)
        qa == h2[new]["quarters_and_runs"]
    IN  IF qa.kind # "ref"
        THEN [error |-> TRUE, heap |-> h2, ret |-> <<>>]
        ELSE [error |-> FALSE,
              heap |-> [h2 EXCEPT ![qa.val] = qa_assign(@, an, Len(QaKeys))],
              ret |-> <<new>>]

\* The value of the dict at an address, with the dicts it refers to.
RECURSIVE DeepValue(_, _)
DeepValue(h, a) ==
    [kind |-> "dict",
     val |-> [k \in DOMAIN h[a] |->
                 IF h[a][k].kind = "ref" THEN DeepValue(h, h[a][k].val)
                 ELSE h[a][k]]]

\* What the caller's context has under quarters_and_runs: nothing, None,
\* an empty dict, or the entry of an earlier game.
QaChoices ==
    { <<>>, <<VVal(None)>>, <<EmptyDict>>,
      << [k \in {"game_id"} |-> VVal("g0")] >> }

\* Analysis documents: with or without a game id, net runs and teams.
AnalysisChoices ==
    { [k \in ks |-> IF k = "game_id" THEN g
                    ELSE IF k = "net_runs" THEN r ELSE "{home, away}"] :
        ks \in SUBSET {"game_id", "net_runs", "teams"},
        g \in {"g1", "g2"}, r \in {"[]", "[run]"} }

-----------------------------------------------------------------------------
(* auto_report.  A recipient value is <<>> for None or <<s>> for a string  *)
(* s, and a string is a sequence of characters.                            *)

\* value.split(","): the parts of the first n characters.
RECURSIVE split_commas(_, _)
split_commas(s, n) ==
    IF n = 0 THEN << <<>> >>
    ELSE LET parts == split_commas(s, n - 1)
         IN  IF s[n] = "," THEN Append(parts, <<>>)
             ELSE [parts EXCEPT ![Len(parts)] = Append(@, s[n])]

\* item.strip()
RECURSIVE strip(_)
strip(item) ==
    IF item = <<>> THEN item
    ELSE IF Head(item) = " " THEN strip(Tail(item))
    ELSE IF item[Len(item)] = " " THEN strip(SubSeq(item, 1, Len(item) - 1))
    ELSE item

\* _parse_recipients(value)
_parse_recipients(value) ==
    IF value = <<>> \/ value[1] = <<>> THEN <<>>
    ELSE LET raw == split_commas(value[1], Len(value[1]))
             parts == [i \in 1..Len(raw) |-> strip(raw[i])]
         IN  SelectSeq(parts, LAMBDA item : item # <<>>)

\* recipients or os.environ.get("EMAIL_TO")
recipient_value(env) ==
    IF env.recipients # <<>> /\ env.recipients[1] # <<>>
    THEN env.recipients ELSE env.email_to

\* The two checks with the recipient check left out.
checks_pass_credentials_only(env, list) ==
    Truthy(env.gmail_user) /\ Truthy(env.gmail_app_password)

\* The two checks at the head of run: neither raises SystemExit.
checks_pass(env, list) ==
    /\ Truthy(env.gmail_user) /\ Truthy(env.gmail_app_password)
    /\ list # <<>>

\* Values of --to: none, the empty string, blanks and commas only, one
\* address, two addresses, an address among blanks and commas.
RecipientChoices ==
    { <<>>, << <<>> >>, << <<" ", ",", " ">> >>, << <<"a">> >>,
      << <<"a", ",", " ", "b">> >>, << <<" ", "a", " ", ",">> >> }

\* The environment and the arguments of a run.
MailEnvChoices ==
    [gmail_user : {None, "", "u"}, gmail_app_password : {None, "p"},
     recipients : RecipientChoices, email_to : { <<>>, << <<"c">> >> }]

-----------------------------------------------------------------------------
(* The state machine: a summary is put together, then run_analysis runs.   *)

\* The variables of the report pipeline around the analysis, which no step
\* of the analysis touches.
schedule == <<schedule_events, latest_id>>

context == <<heap, caller_ctx, ctx_given, analysis_doc, returned_ctx>>

mailer == <<mail_env, recipient_list, summary_file, effects>>

pipeline == <<schedule, context, mailer>>

NoPipeline ==
    /\ schedule_events = <<>>
    /\ latest_id = <<>>
    /\ heap = <<>>
    /\ caller_ctx = <<>>
    /\ ctx_given = <<>>
    /\ analysis_doc = <<>>
    /\ returned_ctx = <<>>
    /\ mail_env = <<>>
    /\ recipient_list = <<>>
    /\ summary_file = FALSE
    /\ effects = <<>>

NoResults ==
    /\ team_id_to_side = EmptyDict
    /\ teams_by_side = EmptyDict
    /\ quarter_team_points = EmptyDict
    /\ quarter_team_totals = EmptyDict
    /\ quarter_player_totals = EmptyDict
    /\ unanswered_runs = <<>>
    /\ net_runs = <<>>
    /\ highlight_runs = <<>>
    /\ out_file = <<>>

Init ==
    /\ competitions = << [competitors |-> ProperCompetitors] >>
    /\ plays_raw = <<>>
    /\ plays_seq = <<>>
    /\ players_by_id = Roster
    /\ boxscore_players = <<>>
    /\ pc = "input"
    /\ NoResults
    /\ NoPipeline

InitTeams ==
    /\ competitions = <<>>
    /\ plays_raw = <<>>
    /\ plays_seq = <<>>
    /\ players_by_id = Roster
    /\ boxscore_players = <<>>
    /\ pc = "input"
    /\ NoResults
    /\ NoPipeline

\* The player map the analysis works with and what it is built from.
roster == <<players_by_id, boxscore_players>>

results == <<team_id_to_side, teams_by_side, quarter_team_points,
             quarter_team_totals, quarter_player_totals, unanswered_runs,
             net_runs, highlight_runs, out_file>>

\* The summary gets its competition.
AddCompetition ==
    /\ pc = "input"
    /\ competitions = <<>>
    /\ competitions' = << [competitors |-> <<>>] >>
    /\ UNCHANGED <<pipeline, plays_raw, plays_seq, pc, roster, results>>

\* The competition gets one more competitor entry.
AddCompetitor ==
    /\ pc = "input"
    /\ competitions # <<>>
    /\ Len(competitions[1].competitors) < MaxCompetitors
    /\ \E c \in CompetitorChoices :
         competitions' =
            << [competitors |-> Append(competitions[1].competitors, c)] >>
    /\ UNCHANGED <<pipeline, plays_raw, plays_seq, pc, roster, results>>

\* The play sequence gets one more play, of the run scans' alphabet.
AppendRunPlay ==
    /\ pc = "input"
    /\ Len(plays_seq) < MaxPlays
    /\ \E c \in RunPlayChoices :
         plays_seq' = Append(plays_seq, RunPlay(plays_seq, c))
    /\ UNCHANGED <<pipeline, competitions, plays_raw, pc, roster, results>>

\* The play sequence gets one more play, of the aggregator's alphabet.
AppendQuarterPlay ==
    /\ pc = "input"
    /\ Len(plays_seq) < MaxQPlays
    /\ \E k \in QuarterKinds, a \in QuarterActors, per \in Periods :
         plays_seq' = Append(plays_seq, QuarterPlay(plays_seq, k, a, per))
    /\ UNCHANGED <<pipeline, competitions, plays_raw, pc, roster, results>>

\* The play sequence gets one more play, of the net-run scan's alphabet.
AppendNetPlay ==
    /\ pc = "input"
    /\ Len(plays_seq) < MaxPlays
    /\ \E c \in NetPlayChoices :
         plays_seq' = Append(plays_seq, NetPlay(plays_seq, c))
    /\ UNCHANGED <<pipeline, competitions, plays_raw, pc, roster, results>>

\* The play sequence gets one more play, of the assists' alphabet.
AppendAssistPlay ==
    /\ pc = "input"
    /\ Len(plays_seq) < MaxQPlays
    /\ \E k \in AssistKinds, a \in AssistActors, per \in AssistPeriods :
         plays_seq' = Append(plays_seq, QuarterPlay(plays_seq, k, a, per))
    /\ UNCHANGED <<pipeline, competitions, plays_raw, pc, roster, results>>

\* The play sequence gets one more play, in one of two periods.
AppendPeriodPlay ==
    /\ pc = "input"
    /\ Len(plays_seq) < MaxQPlays
    /\ \E k \in QuarterKinds, a \in PeriodActors, per \in PlayedPeriods :
         plays_seq' = Append(plays_seq, QuarterPlay(plays_seq, k, a, per))
    /\ UNCHANGED <<pipeline, competitions, plays_raw, pc, roster, results>>

\* The document json.dump writes to the output file (game_id, date and
\* season, which no step computes, are left out).
analysis_out(teams, q_points, q_team, q_player, unanswered, net, high) ==
    [teams |-> teams,
     quarter_team_points |-> q_points,
     quarter_team_totals |-> q_team,
     quarter_player_totals |-> q_player,
     unanswered_runs |-> unanswered,
     net_runs |-> net,
     highlight_runs |-> high]

\* The play sequence gets one more play, of the scoreboard alphabet.
AppendBoardPlay ==
    /\ pc = "input"
    /\ Len(plays_seq) < MaxPlays
    /\ \E c \in BoardPlayChoices :
         plays_seq' = Append(plays_seq, BoardPlay(plays_seq, c))
    /\ UNCHANGED <<pipeline, competitions, plays_raw, pc, roster, results>>

\* The play sequence gets one more play, of the counters' alphabet.
AppendStatPlay ==
    /\ pc = "input"
    /\ Len(plays_seq) < MaxQPlays
    /\ \E k \in StatKinds, a \in PeriodActors :
         plays_seq' = Append(plays_seq, QuarterPlay(plays_seq, k, a, "1"))
    /\ UNCHANGED <<pipeline, competitions, plays_raw, pc, roster, results>>

\* The play sequence gets one more play, of the alphabet of jumps.
AppendOrderPlay ==
    /\ pc = "input"
    /\ Len(plays_seq) < MaxPlays
    /\ \E c \in OrderPlayChoices :
         plays_seq' = Append(plays_seq, BoardPlay(plays_seq, c))
    /\ UNCHANGED <<pipeline, competitions, plays_raw, pc, roster, results>>

\* What run_analysis does with the play sequence: resolve the teams,
\* aggregate, scan, write the output.
run_analysis_on(plays, players) ==
    LET maps == _build_team_maps(competitions)
    IN  IF maps.error
        THEN /\ pc' = "failed"
             /\ UNCHANGED results
        ELSE LET map == maps.team_id_to_side
                 q == compute_quarter_team_and_player_totals(
                          plays, map, players)
             IN  /\ pc' = "done"
                 /\ team_id_to_side' = map
                 /\ teams_by_side' = maps.teams_by_side
                 /\ quarter_team_points' =
                        compute_quarter_team_points(plays, map)
                 /\ quarter_team_totals' = q.team
                 /\ quarter_player_totals' = q.player
                 /\ unanswered_runs' = compute_unanswered_runs(plays, map)
                 /\ net_runs' = compute_net_runs(plays, map)
                 /\ highlight_runs' = compute_highlight_runs(plays, map)
                 /\ out_file' =
                        << analysis_out(teams_by_side', quarter_team_points',
                               quarter_team_totals', quarter_player_totals',
                               unanswered_runs', net_runs',
                               highlight_runs') >>

\* run_analysis, from the play sequence the normalizer has returned.
run_analysis ==
    /\ pc = "input"
    /\ run_analysis_on(plays_seq, players_by_id)
    /\ UNCHANGED <<pipeline, competitions, plays_raw, plays_seq, roster>>

\* The summary gets one more raw play.
AppendRawPlay ==
    /\ pc = "input"
    /\ Len(plays_raw) < MaxRawPlays
    /\ \E p \in RawPlayChoices : plays_raw' = Append(plays_raw, p)
    /\ UNCHANGED <<pipeline, competitions, plays_seq, pc, roster, results>>

\* run_analysis, from the raw plays of the summary: the normalizer runs
\* first, and an exception it raises ends the analysis.
run_analysis_raw ==
    /\ pc = "input"
    /\ LET ex == _extract_basic_play_sequence(plays_raw)
       IN  IF ex.error
           THEN /\ pc' = "failed"
                /\ UNCHANGED <<plays_seq, results>>
           ELSE /\ plays_seq' = ex.seq
                /\ run_analysis_on(ex.seq, players_by_id)
    /\ UNCHANGED <<pipeline, competitions, plays_raw, roster>>

\* The state before the box score of a summary is put together.
InitPlayers ==
    /\ competitions = <<[competitors |-> ProperCompetitors]>>
    /\ plays_raw = <<>>
    /\ plays_seq = <<>>
    /\ players_by_id = EmptyDict
    /\ boxscore_players = <<>>
    /\ pc = "input"
    /\ NoResults
    /\ NoPipeline

\* The box score gets one more team block.
AddTeamBlock ==
    /\ pc = "input"
    /\ BoxscoreSize < MaxBoxscore
    /\ \E t \in TeamIdChoices :
           boxscore_players' =
               Append(boxscore_players, [team |-> t, statistics |-> <<>>])
    /\ UNCHANGED <<pipeline, competitions, plays_raw, plays_seq, pc,
                   players_by_id, results>>

\* The last team block gets one more stat block.
AddStatBlock ==
    /\ pc = "input"
    /\ boxscore_players # <<>>
    /\ BoxscoreSize < MaxBoxscore
    /\ LET n == Len(boxscore_players)
           block == boxscore_players[n]
       IN  boxscore_players' =
               [boxscore_players EXCEPT
                    ![n].statistics = Append(block.statistics, <<>>)]
    /\ UNCHANGED <<pipeline, competitions, plays_raw, plays_seq, pc,
                   players_by_id, results>>

\* The last stat block of the last team block gets one more athlete.
AddAthlete ==
    /\ pc = "input"
    /\ boxscore_players # <<>>
    /\ BoxscoreSize < MaxBoxscore
    /\ LET n == Len(boxscore_players)
           block == boxscore_players[n]
           m == Len(block.statistics)
       IN  /\ m > 0
           /\ \E a \in AthleteChoices :
                  boxscore_players' =
                      [boxscore_players EXCEPT
                           ![n].statistics[m] =
                               Append(block.statistics[m], a)]
    /\ UNCHANGED <<pipeline, competitions, plays_raw, plays_seq, pc,
                   players_by_id, results>>

\* run_analysis, from the box score of the summary: the team maps and the
\* player map are built first and the aggregator works with that map.
run_analysis_players ==
    /\ pc = "input"
    /\ LET maps == _build_team_maps(competitions)
           players == IF maps.error THEN players_by_id
                      ELSE _build_player_maps(boxscore_players,
                                              maps.team_id_to_side)
       IN  /\ players_by_id' = players
           /\ run_analysis_on(plays_seq, players)
    /\ UNCHANGED <<pipeline, competitions, plays_raw, plays_seq,
                   boxscore_players>>

\* run_analysis statement by statement.  pc names the step that runs next;
\* the summary is complete when the first step runs.

\* The order of the statements, with the write ahead of the normalizer.
step_after_write_early(step) ==
    CASE step = "team_maps" -> "player_maps"
      [] step = "player_maps" -> "write"
      [] step = "write" -> "done"
      [] OTHER -> "done"

\* The step that follows a step, in the order of the statements.
step_after(step) ==
    CASE step = "team_maps" -> "player_maps"
      [] step = "player_maps" -> "extract"
      [] step = "extract" -> "quarters"
      [] step = "quarters" -> "runs"
      [] step = "runs" -> "write"
      [] step = "write" -> "done"

\* Raw plays of the stepwise analysis: a home basket, an away basket, a
\* play that scores nothing, and a record whose period is a bare number, on
\* which the normalizer raises.
StepPlayChoices ==
    { WellFormedPlay,
      [WellFormedPlay EXCEPT !.team = JDict([id |-> JInt(2)]),
                             !.homeScore = JInt(2), !.awayScore = JInt(3),
                             !.scoreValue = JInt(3),
                             !.participants = JList(<<JDict(
                                 [athlete |-> JDict([id |-> JStr("a1")])])>>)],
      [WellFormedPlay EXCEPT !.scoringPlay = JBool(FALSE),
                             !.scoreValue = JNull,
                             !.shootingPlay = JBool(FALSE),
                             !.homeScore = JNull, !.awayScore = JNull],
      [WellFormedPlay EXCEPT !.period = JInt(2)] }

\* The box score of the stepwise analysis: a stat block of two home
\* players and one of an away player.
RosterBoxscore ==
    << [team |-> JStr(HomeId),
        statistics |-> << << [id |-> JStr("h1"), name |-> "n1"],
                             [id |-> JStr("h2"), name |-> "n2"] >> >>],
       [team |-> JStr(AwayId),
        statistics |-> << << [id |-> JStr("a1"), name |-> "n1"] >> >>] >>

\* The summary before its competition and its plays are there.
InitSteps ==
    /\ competitions = <<>>
    /\ plays_raw = <<>>
    /\ plays_seq = <<>>
    /\ players_by_id = EmptyDict
    /\ boxscore_players = RosterBoxscore
    /\ pc = "input"
    /\ NoResults
    /\ NoPipeline

\* The summary gets its competition, with both competitors.
LoadCompetition ==
    /\ pc = "input"
    /\ competitions = <<>>
    /\ competitions' = << [competitors |-> ProperCompetitors] >>
    /\ UNCHANGED <<pipeline, plays_raw, plays_seq, pc, roster, results>>

\* The summary gets one more raw play.
AppendStepPlay ==
    /\ pc = "input"
    /\ Len(plays_raw) < MaxRawPlays
    /\ \E p \in StepPlayChoices : plays_raw' = Append(plays_raw, p)
    /\ UNCHANGED <<pipeline, competitions, plays_seq, pc, roster, results>>

\* maps = _build_team_maps(summary)
step_team_maps ==
    /\ pc = "input"
    /\ LET maps == _build_team_maps(competitions)
       IN  IF maps.error
           THEN /\ pc' = "failed"
                /\ UNCHANGED <<team_id_to_side, teams_by_side>>
           ELSE /\ pc' = step_after("team_maps")
                /\ team_id_to_side' = maps.team_id_to_side
                /\ teams_by_side' = maps.teams_by_side
    /\ UNCHANGED <<pipeline, competitions, plays_raw, plays_seq, roster,
                   quarter_team_points, quarter_team_totals,
                   quarter_player_totals, unanswered_runs, net_runs,
                   highlight_runs, out_file>>

\* player_maps = _build_player_maps(summary, team_id_to_side)
step_player_maps ==
    /\ pc = "player_maps"
    /\ pc' = step_after("player_maps")
    /\ players_by_id' = _build_player_maps(boxscore_players, team_id_to_side)
    /\ UNCHANGED <<pipeline, competitions, plays_raw, plays_seq,
                   boxscore_players, results>>

\* plays_seq = _extract_basic_play_sequence(summary)
step_extract ==
    /\ pc = "extract"
    /\ LET ex == _extract_basic_play_sequence(plays_raw)
       IN  IF ex.error
           THEN /\ pc' = "failed"
                /\ UNCHANGED plays_seq
           ELSE /\ pc' = step_after("extract")
                /\ plays_seq' = ex.seq
    /\ UNCHANGED <<pipeline, competitions, plays_raw, roster, results>>

\* q_points = ...; quarter_team_totals, quarter_player_totals = ...
step_quarters ==
    /\ pc = "quarters"
    /\ pc' = step_after("quarters")
    /\ LET q == compute_quarter_team_and_player_totals(
                    plays_seq, team_id_to_side, players_by_id)
       IN  /\ quarter_team_points' =
                  compute_quarter_team_points(plays_seq, team_id_to_side)
           /\ quarter_team_totals' = q.team
           /\ quarter_player_totals' = q.player
    /\ UNCHANGED <<pipeline, competitions, plays_raw, plays_seq, roster,
                   team_id_to_side, teams_by_side, unanswered_runs, net_runs,
                   highlight_runs, out_file>>

\* unanswered_runs = ...; net_runs = ...; highlight_runs = ...
step_runs ==
    /\ pc = "runs"
    /\ pc' = step_after("runs")
    /\ unanswered_runs' = compute_unanswered_runs(plays_seq, team_id_to_side)
    /\ net_runs' = compute_net_runs(plays_seq, team_id_to_side)
    /\ highlight_runs' = compute_highlight_runs(plays_seq, team_id_to_side)
    /\ UNCHANGED <<pipeline, competitions, plays_raw, plays_seq, roster,
                   team_id_to_side, teams_by_side, quarter_team_points,
                   quarter_team_totals, quarter_player_totals, out_file>>

\* with out_path.open("w") as f: json.dump(out, f)
step_write ==
    /\ pc = "write"
    /\ pc' = step_after("write")
    /\ out_file' =
           << analysis_out(teams_by_side, quarter_team_points,
                  quarter_team_totals, quarter_player_totals,
                  unanswered_runs, net_runs, highlight_runs) >>
    /\ UNCHANGED <<pipeline, competitions, plays_raw, plays_seq, roster,
                   team_id_to_side, teams_by_side, quarter_team_points,
                   quarter_team_totals, quarter_player_totals,
                   unanswered_runs, net_runs, highlight_runs>>

\* What the schedule steps leave alone: the summary and its analysis.
analysis == <<competitions, plays_raw, plays_seq, roster, results>>

\* The schedule gets one more event; its id is its place in the schedule.
AppendEvent ==
    /\ pc = "input"
    /\ Len(schedule_events) < MaxEvents
    /\ \E c \in EventChoices :
         schedule_events' =
             Append(schedule_events,
                    [id |-> IF c.has_id
                            THEN << ToString(Len(schedule_events) + 1) >>
                            ELSE <<>>,
                     okc |-> c.okc, time |-> c.time,
                     completed |-> c.completed, post |-> c.post,
                     boxscore |-> c.boxscore])
    /\ UNCHANGED <<analysis, context, mailer, pc, latest_id>>

\* find_latest_okc_game_id() on the schedule as it is.
find_latest ==
    /\ pc = "input"
    /\ LET r == find_latest_okc_game_id(schedule_events)
       IN  IF r = <<>>
           THEN pc' = "failed" /\ UNCHANGED latest_id
           ELSE pc' = "done" /\ latest_id' = r
    /\ UNCHANGED <<analysis, context, mailer, schedule_events>>

\* The caller builds its context: a title, and under quarters_and_runs one
\* of the choices; a dict there is an object of its own.
SetContext ==
    /\ pc = "input"
    /\ caller_ctx = <<>>
    /\ \E qa \in QaChoices, titled \in BOOLEAN :
         LET base == IF titled THEN [k \in {"title"} |-> VVal("report")]
                     ELSE EmptyDict
             h == IF qa = <<>> THEN << base >>
                  ELSE IF qa[1] = VVal(None)
                  THEN << Put(base, "quarters_and_runs", qa[1]) >>
                  ELSE << Put(base, "quarters_and_runs", VRef(2)), qa[1] >>
         IN  /\ heap' = h
             /\ caller_ctx' = <<1>>
             /\ ctx_given' = <<DeepValue(h, 1)>>
    /\ UNCHANGED <<analysis, schedule, mailer, pc, analysis_doc,
                   returned_ctx>>

\* The analysis document is loaded.
SetAnalysis ==
    /\ pc = "input"
    /\ analysis_doc = <<>>
    /\ \E an \in AnalysisChoices : analysis_doc' = <<an>>
    /\ UNCHANGED <<analysis, schedule, mailer, pc, heap, caller_ctx,
                   ctx_given, returned_ctx>>

\* The call augment_report_context_with_quarters_and_runs(ctx, analysis).
augment_report_context ==
    /\ pc = "input"
    /\ caller_ctx # <<>>
    /\ analysis_doc # <<>>
    /\ LET r == augment_report_context_with_quarters_and_runs(
                    heap, caller_ctx[1], analysis_doc[1])
       IN  /\ heap' = r.heap
           /\ returned_ctx' = r.ret
           /\ pc' = IF r.error THEN "failed" ELSE "done"
    /\ UNCHANGED <<analysis, schedule, mailer, caller_ctx, ctx_given,
                   analysis_doc>>

\* What auto_report.run leaves alone.
outside_mailer == <<analysis, schedule, context>>

\* The environment variables and the arguments of the run are set.
SetMailEnv ==
    /\ pc = "input"
    /\ mail_env = <<>>
    /\ \E env \in MailEnvChoices : mail_env' = <<env>>
    /\ UNCHANGED <<outside_mailer, pc, recipient_list, summary_file, effects>>

\* run, up to the two checks: SystemExit, or on to fetch_and_cache.
run_checks ==
    /\ pc = "input"
    /\ mail_env # <<>>
    /\ LET list == _parse_recipients(recipient_value(mail_env[1]))
       IN  /\ recipient_list' = list
           /\ pc' = IF checks_pass(mail_env[1], list) THEN "fetch"
                    ELSE "exit"
    /\ UNCHANGED <<outside_mailer, mail_env, summary_file, effects>>

\* used_game_id = fetch_and_cache(game_id): the summary is fetched and
\* saved, or the request raises.
run_fetch_and_cache ==
    /\ pc = "fetch"
    /\ \/ /\ effects' = effects \o <<"fetch", "cache">>
          /\ summary_file' = TRUE
          /\ pc' = "write_html"
       \/ /\ effects' = Append(effects, "fetch")
          /\ pc' = "failed"
          /\ UNCHANGED summary_file
    /\ UNCHANGED <<outside_mailer, mail_env, recipient_list>>

\* html_path = _write_report_html(used_game_id): the report is written, or
\* building it raises.
run_write_report_html ==
    /\ pc = "write_html"
    /\ \/ /\ effects' = Append(effects, "html")
          /\ pc' = "check_json"
       \/ /\ pc' = "failed"
          /\ UNCHANGED effects
    /\ UNCHANGED <<outside_mailer, mail_env, recipient_list, summary_file>>

\* Something else removes the cached summary before run looks for it.
RemoveSummary ==
    /\ pc = "check_json"
    /\ summary_file
    /\ summary_file' = FALSE
    /\ UNCHANGED <<outside_mailer, pc, mail_env, recipient_list, effects>>

\* if not json_path.exists(): raise SystemExit(...)
run_check_json ==
    /\ pc = "check_json"
    /\ pc' = IF summary_file THEN "send" ELSE "exit"
    /\ UNCHANGED <<outside_mailer, mail_env, recipient_list, summary_file,
                   effects>>

\* _send_email(...): the message goes out, or the SMTP session raises.
run_send_email ==
    /\ pc = "send"
    /\ \/ /\ effects' = Append(effects, "email")
          /\ pc' = "done"
       \/ /\ pc' = "failed"
          /\ UNCHANGED effects
    /\ UNCHANGED <<outside_mailer, mail_env, recipient_list, summary_file>>

Next == AppendRunPlay \/ run_analysis

NextQuarters == AppendQuarterPlay \/ run_analysis

NextTeams == AddCompetition \/ AddCompetitor \/ run_analysis

\* The run scans over every play sequence of the run alphabet.
Spec == Init /\ [][Next]_vars

\* The quarter aggregator over every play sequence of its alphabet.
SpecQuarters == Init /\ [][NextQuarters]_vars

NextNet == AppendNetPlay \/ run_analysis

\* The net-run scan over every play sequence of its alphabet.
SpecNet == Init /\ [][NextNet]_vars

NextNormalizer == AppendRawPlay \/ run_analysis_raw

\* The normalizer, and the analysis after it, over every raw play list.
SpecNormalizer == Init /\ [][NextNormalizer]_vars

NextAssists == AppendAssistPlay \/ run_analysis

\* The aggregator over every play sequence of the assists' alphabet.
SpecAssists == Init /\ [][NextAssists]_vars

NextPeriods == AppendPeriodPlay \/ run_analysis

\* The aggregator over every play sequence spread over two periods.
SpecPeriods == Init /\ [][NextPeriods]_vars

NextPlayers ==
    AddTeamBlock \/ AddStatBlock \/ AddAthlete \/ run_analysis_players

\* The player map over every box score.
SpecPlayers == InitPlayers /\ [][NextPlayers]_vars

NextSteps ==
    \/ LoadCompetition
    \/ AppendStepPlay
    \/ step_team_maps
    \/ step_player_maps
    \/ step_extract
    \/ step_quarters
    \/ step_runs
    \/ step_write

\* run_analysis one statement at a time, over summaries with and without
\* a competition and with raw plays the normalizer accepts or not.
SpecSteps == InitSteps /\ [][NextSteps]_vars

NextBoard == AppendBoardPlay \/ run_analysis

\* The net-run scan over scoreboards that a play of either side may move
\* on both sides.
SpecBoard == Init /\ [][NextBoard]_vars

NextSchedule == AppendEvent \/ find_latest

\* find_latest_okc_game_id over every schedule.
SpecSchedule == Init /\ [][NextSchedule]_vars

NextStats == AppendStatPlay \/ run_analysis

\* The aggregator over shots and rebounds of every outcome.
SpecStats == Init /\ [][NextStats]_vars

NextOrder == AppendOrderPlay \/ run_analysis

\* The run scans over sequences in which several runs are emitted.
SpecOrder == Init /\ [][NextOrder]_vars

NextContext == SetContext \/ SetAnalysis \/ augment_report_context

\* The context augmentation over every caller's context and analysis.
SpecContext == Init /\ [][NextContext]_vars

NextMailer ==
    \/ SetMailEnv
    \/ run_checks
    \/ run_fetch_and_cache
    \/ run_write_report_html
    \/ RemoveSummary
    \/ run_check_json
    \/ run_send_email

\* auto_report.run statement by statement, over every environment.
SpecMailer == Init /\ [][NextMailer]_vars

\* Team resolution over every competitor list.
SpecTeams == InitTeams /\ [][NextTeams]_vars

-----------------------------------------------------------------------------
(* Vocabulary of the properties.                                           *)

\* The set of the elements of a sequence.
Range(seq) == {seq[i] : i \in 1..Len(seq)}

\* The play with (0-based) index i.
PlayAt(i) == plays_seq[i + 1]

Indices == 0..(Len(plays_seq) - 1)

IsScoringIndex(i) == i \in Indices /\ PlayAt(i).scoring_play

\* The side a play is attributed to, None when it cannot be resolved.
ResolvedSide(pl) == SideOf(team_id_to_side, pl.team_id)

OtherSide(side) == IF side = "home" THEN "away" ELSE "home"

\* The points of the scoring plays of a side with index in lo..hi.
RECURSIVE SidePoints(_, _, _)
SidePoints(side, lo, hi) ==
    IF hi < lo THEN 0
    ELSE SidePoints(side, lo, hi - 1)
         + (IF PlayAt(hi).scoring_play /\ ResolvedSide(PlayAt(hi)) = side
            THEN PlayAt(hi).score_value ELSE 0)

\* A scoring play that cannot be attributed to home or away.
IsUnattributed(pl) == pl.scoring_play /\ ResolvedSide(pl) \notin Sides

-----------------------------------------------------------------------------
(* The run scans.                                                          *)

\* C1: every run emitted by the three scans has start_index <= end_index,
\* and both are indices of scoring plays of the input sequence.
C1_RunIndicesAreScoringPlays ==
    \A r \in Range(unanswered_runs) \cup Range(net_runs)
             \cup Range(highlight_runs) :
        /\ r.start_index <= r.end_index
        /\ IsScoringIndex(r.start_index)
        /\ IsScoringIndex(r.end_index)

\* C2: every unanswered run has at least 7 points, and its points are the
\* sum of score_value over the scoring plays of its side with index in
\* [start_index, end_index].
C2_UnansweredPointsReplay ==
    \A r \in Range(unanswered_runs) :
        /\ r.points >= 7
        /\ r.points = SidePoints(r.side, r.start_index, r.end_index)

\* A run was emitted whose end_index play is a basket of the other side,
\* after several baskets of its own side.
C2_Witness ==
    /\ pc = "done"
    /\ \E r \in Range(unanswered_runs) :
          /\ ResolvedSide(PlayAt(r.end_index)) = OtherSide(r.side)
          /\ PlayAt(r.end_index).scoring_play
          /\ r.end_index - r.start_index >= 3
          /\ r.points = 7

\* The margin of the run's side at play i, relative to the margin at the
\* run's start play.
RelMargin(r, i) ==
    margin_for_side(PlayAt(i), r.side)
    - margin_for_side(PlayAt(r.start_index), r.side)

\* C3, as stated: the relative margin of a net run's side at the end_index
\* play is >= 8, and at no scoring play between the start and the end of
\* the run was it <= 0.
C3_NetMarginAtEndAndPositive ==
    \A r \in Range(net_runs) :
        /\ RelMargin(r, r.end_index) >= 8
        /\ \A i \in Indices :
              (r.start_index < i /\ i < r.end_index /\ IsScoringIndex(i))
                 => RelMargin(r, i) > 0

\* The end_index play closed the run: it is an unattributable scoring play,
\* or a basket of the other side that drove the relative margin below 0.
ClosedByEndPlay(r) ==
    \/ IsUnattributed(PlayAt(r.end_index))
    \/ /\ ResolvedSide(PlayAt(r.end_index)) = OtherSide(r.side)
       /\ RelMargin(r, r.end_index) < 0

\* The last scoring play at which the run was still open.
LastOpenIndex(r) ==
    IF ClosedByEndPlay(r)
    THEN CHOOSE i \in Indices :
            /\ i < r.end_index /\ IsScoringIndex(i)
            /\ \A j \in Indices :
                  (i < j /\ j < r.end_index) => ~IsScoringIndex(j)
    ELSE r.end_index

\* C3, amended: net_points >= 8 is the relative margin at the last scoring
\* play at which the run was still open (the end_index play, or the scoring
\* play before it when the end_index play closed the run), and at no basket
\* of the other side between the start and the end of the run was the
\* relative margin < 0.
C3_NetMarginAtLastOpenAndNonNegative ==
    \A r \in Range(net_runs) :
        /\ r.net_points >= 8
        /\ r.start_index < r.end_index
        /\ r.net_points = RelMargin(r, LastOpenIndex(r))
        /\ \A i \in Indices :
              (r.start_index < i /\ i < r.end_index /\ IsScoringIndex(i)
               /\ ResolvedSide(PlayAt(i)) = OtherSide(r.side))
                 => RelMargin(r, i) >= 0

\* A net run was emitted inside which the other side brought the relative
\* margin back to exactly 0.
C3_Witness ==
    /\ pc = "done"
    /\ \E r \in Range(net_runs) :
          \E i \in Indices :
             /\ r.start_index < i /\ i < r.end_index
             /\ IsScoringIndex(i)
             /\ ResolvedSide(PlayAt(i)) = OtherSide(r.side)
             /\ RelMargin(r, i) = 0

\* The net and the points against of the stretch from index s to index e,
\* for a side.
NetOver(side, s, e) ==
    SidePoints(side, s, e) - SidePoints(OtherSide(side), s, e)

Qualifies(side, s, e) ==
    /\ NetOver(side, s, e) >= 8
    /\ SidePoints(OtherSide(side), s, e) <= 5

\* C4: counting from the start event to the end event of a highlight run
\* gives points_for - points_against >= 8 and points_against <= 5, and no
\* earlier end event for the same start qualifies with a larger net.
C4_HighlightThresholdsAndBest ==
    \A r \in Range(highlight_runs) :
        /\ r.points_for = SidePoints(r.side, r.start_index, r.end_index)
        /\ r.points_against =
              SidePoints(OtherSide(r.side), r.start_index, r.end_index)
        /\ Qualifies(r.side, r.start_index, r.end_index)
        /\ \A e \in Indices :
              (r.start_index <= e /\ e < r.end_index /\ IsScoringIndex(e)
               /\ Qualifies(r.side, r.start_index, e))
                 => NetOver(r.side, r.start_index, e)
                       <= NetOver(r.side, r.start_index, r.end_index)

\* A highlight run was emitted that conceded points and replaced an earlier
\* qualifying end by a better one.
C4_Witness ==
    /\ pc = "done"
    /\ \E r \in Range(highlight_runs) :
          /\ r.points_against > 0
          /\ \E e \in Indices :
                /\ r.start_index <= e /\ e < r.end_index
                /\ IsScoringIndex(e)
                /\ Qualifies(r.side, r.start_index, e)
                /\ NetOver(r.side, r.start_index, e) < r.net_points

\* The scan states on both sides of play k close the run in progress:
\* nothing is open afterwards, and the run list grew by the run that was
\* open, ended at play k, exactly when that run met the threshold.
ClosesRun(before, after, k, value, threshold) ==
    /\ after.current_side = None
    /\ after.start_play = NoPlay
    /\ IF before.current_side # None /\ value >= threshold
       THEN /\ Len(after.runs) = Len(before.runs) + 1
            /\ SubSeq(after.runs, 1, Len(before.runs)) = before.runs
            /\ after.runs[Len(after.runs)].side = before.current_side
            /\ after.runs[Len(after.runs)].start_index
                  = before.start_play[1].index
            /\ after.runs[Len(after.runs)].end_index = k - 1
       ELSE after.runs = before.runs

\* C7: in the unanswered-run and net-run scans a scoring play of no
\* resolvable side closes the run in progress (emitted only if it meets the
\* threshold), opens no run and adds no points: no emitted run starts at
\* such a play or holds one before its end.
C7_UnattributedClosesRun ==
    pc = "done" =>
      /\ \A k \in 1..Len(plays_seq) :
            IsUnattributed(plays_seq[k]) =>
              LET ub == unanswered_scan(plays_seq, team_id_to_side, k - 1)
                  ua == unanswered_scan(plays_seq, team_id_to_side, k)
                  nb == net_scan(plays_seq, team_id_to_side, k - 1)
                  na == net_scan(plays_seq, team_id_to_side, k)
              IN  /\ ClosesRun(ub, ua, k, ub.current_points, 7)
                  /\ ua.current_points = 0
                  /\ ClosesRun(nb, na, k, nb.current_net, 8)
                  /\ na.current_net = 0
      /\ \A r \in Range(unanswered_runs) \cup Range(net_runs) :
            \A i \in Indices :
               (r.start_index <= i /\ i < r.end_index)
                  => ~IsUnattributed(PlayAt(i))

\* An unattributable basket ended an unanswered run and a net run, both
\* emitted, and the scans went on to open a run at a later basket.
C7_Witness ==
    /\ pc = "done"
    /\ \E k \in 1..Len(plays_seq) :
          /\ IsUnattributed(plays_seq[k])
          /\ \E r \in Range(unanswered_runs) : r.end_index = k - 1
          /\ \E r \in Range(net_runs) : r.end_index = k - 1
          /\ LET n == Len(plays_seq)
                 ua == unanswered_scan(plays_seq, team_id_to_side, n)
                 na == net_scan(plays_seq, team_id_to_side, n)
             IN  /\ ua.current_side # None /\ ua.start_play[1].index > k - 1
                 /\ na.current_side # None /\ na.start_play[1].index > k - 1

\* C8: no highlight run has a scoring play of no resolvable side after its
\* start, up to and including its end.
C8_HighlightStopsAtUnattributed ==
    \A r \in Range(highlight_runs) :
        \A i \in Indices :
           (r.start_index < i /\ i <= r.end_index)
              => ~IsUnattributed(PlayAt(i))

\* C9: no basket of the other side has its index within the span
\* [start_index, end_index] of an unanswered run.
C9_NoOpposingBasketInSpan ==
    \A r \in Range(unanswered_runs) :
        \A i \in Indices :
           (r.start_index <= i /\ i <= r.end_index)
              => ~(PlayAt(i).scoring_play
                   /\ ResolvedSide(PlayAt(i)) = OtherSide(r.side))

\* The play sequence is exactly three home baskets worth 2, 2 and 3.
IsHome223 ==
    /\ Len(plays_seq) = 3
    /\ \A k \in 1..3 :
          /\ plays_seq[k].team_id = HomeId
          /\ plays_seq[k].scoring_play
          /\ plays_seq[k].score_value = <<2, 2, 3>>[k]

\* C10: three home baskets worth 2, 2 and 3 yield exactly one unanswered
\* run, of the home side, with 7 points, from index 0 to index 2.
C10_Home223IsOneRunOfSeven ==
    (pc = "done" /\ IsHome223) =>
       /\ Len(unanswered_runs) = 1
       /\ unanswered_runs[1].side = "home"
       /\ unanswered_runs[1].points = 7
       /\ unanswered_runs[1].start_index = 0
       /\ unanswered_runs[1].end_index = 2

\* The analysis of that sequence is done.
C10_Witness == pc = "done" /\ IsHome223

-----------------------------------------------------------------------------
(* The quarter aggregator.                                                 *)

\* The sum, over a set of periods, of a side's pts in quarter_team_totals.
RECURSIVE QuarterPts(_, _)
QuarterPts(periods, side) ==
    IF periods = {} THEN 0
    ELSE LET p == CHOOSE x \in periods : TRUE
         IN  (IF side \in DOMAIN quarter_team_totals[p]
              THEN quarter_team_totals[p][side]["pts"] ELSE 0)
             + QuarterPts(periods \ {p}, side)

\* C5: for each side, the per-quarter pts of quarter_team_totals sum to the
\* points of that side's scoring plays over the whole play sequence.
C5_QuarterPtsSumToSideTotal ==
    pc = "done" =>
       \A side \in Sides :
          QuarterPts(DOMAIN quarter_team_totals, side)
             = SidePoints(side, 0, Len(plays_seq) - 1)

-----------------------------------------------------------------------------
(* Team resolution.                                                        *)

\* The competitor list does not have exactly two entries, or one of them
\* lacks its home/away tag.
BadCompetitors(cs) ==
    \/ Len(cs) # 2
    \/ \E i \in 1..Len(cs) : ~Truthy(cs[i].homeAway)

\* C6: with such a competitor list the analysis fails and no team map,
\* partial or not, is produced.
C6_BadCompetitorsAbort ==
    (pc # "input" /\ competitions # <<>>
     /\ BadCompetitors(competitions[1].competitors))
       => /\ pc = "failed"
          /\ DOMAIN team_id_to_side = {}
          /\ DOMAIN teams_by_side = {}

\* The play sequence is exactly home +3, away +2, home +2.
IsHome3Away2Home2 ==
    /\ Len(plays_seq) = 3
    /\ \A k \in 1..3 :
          /\ plays_seq[k].team_id = <<HomeId, AwayId, HomeId>>[k]
          /\ plays_seq[k].scoring_play
          /\ plays_seq[k].score_value = <<3, 2, 2>>[k]

\* Play k is a basket of a resolvable side other than the side of the run
\* that is open when the scan reaches it.
ChangesSide(k) ==
    /\ plays_seq[k].scoring_play
    /\ ResolvedSide(plays_seq[k]) \in Sides
    /\ unanswered_scan(plays_seq, team_id_to_side, k - 1).current_side
          = OtherSide(ResolvedSide(plays_seq[k]))

\* C11: home +3, away +2, home +2 yields no unanswered run; each change of
\* scoring side closes the open run, which is emitted only with 7 points or
\* more, and the run opened for the new side starts at that play with that
\* play's points alone, so no emitted run holds points from before a change
\* of side.
C11_SideChangeClosesWithoutCarry ==
    pc = "done" =>
      /\ IsHome3Away2Home2 => unanswered_runs = <<>>
      /\ \A k \in 1..Len(plays_seq) :
            ChangesSide(k) =>
              LET ub == unanswered_scan(plays_seq, team_id_to_side, k - 1)
                  ua == unanswered_scan(plays_seq, team_id_to_side, k)
              IN  /\ ua.current_side = ResolvedSide(plays_seq[k])
                  /\ ua.current_points = plays_seq[k].score_value
                  /\ ua.start_play = Some(plays_seq[k])
                  /\ IF ub.current_points >= 7
                     THEN /\ Len(ua.runs) = Len(ub.runs) + 1
                          /\ ua.runs[Len(ua.runs)].points = ub.current_points
                          /\ ua.runs[Len(ua.runs)].side = ub.current_side
                     ELSE ua.runs = ub.runs
      /\ \A r \in Range(unanswered_runs) :
            \A k \in 1..Len(plays_seq) :
               (ChangesSide(k) /\ r.start_index < k - 1)
                  => r.end_index <= k - 1

\* The analysis of home +3, away +2, home +2 is done: two changes of side
\* closed runs of 3 and of 2 points.
C11_Witness ==
    /\ pc = "done"
    /\ IsHome3Away2Home2
    /\ ChangesSide(2) /\ ChangesSide(3)

\* Play k is a basket of the side opposing the net run that is open when
\* the scan reaches it.
OpposingBasket(k) ==
    /\ plays_seq[k].scoring_play
    /\ ResolvedSide(plays_seq[k]) \in Sides
    /\ net_scan(plays_seq, team_id_to_side, k - 1).current_side
          = OtherSide(ResolvedSide(plays_seq[k]))

\* The margin of the owner of the run open before play k, after play k,
\* relative to the run's start anchor.
AnchoredMargin(k) ==
    LET nb == net_scan(plays_seq, team_id_to_side, k - 1)
    IN  margin_for_side(plays_seq[k], nb.current_side)
        - nb.start_margin_side[1]

\* C12: in the net-run scan, a basket of the opposing side that makes the
\* owner's margin relative to the anchor negative closes the run, which is
\* emitted exactly if its last recorded net was >= 8, and opens a run of the
\* opposing side anchored at its margin after that play, with net 0; a
\* basket that leaves the relative margin >= 0 leaves the run open, with net
\* set to the new relative margin.
C12_OpposingBasketClosesOrChips ==
    pc = "done" =>
      \A k \in 1..Len(plays_seq) :
         OpposingBasket(k) =>
           LET nb == net_scan(plays_seq, team_id_to_side, k - 1)
               na == net_scan(plays_seq, team_id_to_side, k)
               pl == plays_seq[k]
           IN  IF AnchoredMargin(k) < 0
               THEN /\ na.current_side = ResolvedSide(pl)
                    /\ na.start_play = Some(pl)
                    /\ na.start_margin_side
                          = Some(margin_for_side(pl, ResolvedSide(pl)))
                    /\ na.current_net = 0
                    /\ IF nb.current_net >= 8
                       THEN /\ Len(na.runs) = Len(nb.runs) + 1
                            /\ na.runs[Len(na.runs)].side = nb.current_side
                            /\ na.runs[Len(na.runs)].net_points
                                  = nb.current_net
                            /\ na.runs[Len(na.runs)].start_index
                                  = nb.start_play[1].index
                       ELSE na.runs = nb.runs
               ELSE /\ na.current_side = nb.current_side
                    /\ na.start_play = nb.start_play
                    /\ na.start_margin_side = nb.start_margin_side
                    /\ na.current_net = AnchoredMargin(k)
                    /\ na.runs = nb.runs

\* One opposing basket chipped into an open run without closing it, and a
\* later one closed a run whose last recorded net was 8 or more.
C12_Witness ==
    /\ pc = "done"
    /\ \E k \in 1..Len(plays_seq) :
          /\ OpposingBasket(k)
          /\ AnchoredMargin(k) >= 0
          /\ AnchoredMargin(k)
                < net_scan(plays_seq, team_id_to_side, k - 1).current_net
    /\ \E k \in 1..Len(plays_seq) :
          /\ OpposingBasket(k)
          /\ AnchoredMargin(k) < 0
          /\ net_scan(plays_seq, team_id_to_side, k - 1).current_net >= 8

\* The scoring plays at which a highlight scan starts: those of a side.
IsStartIndex(s) ==
    IsScoringIndex(s) /\ Get(team_id_to_side, PlayAt(s).team_id) \in Sides

StartSide(s) == Get(team_id_to_side, PlayAt(s).team_id)

\* The state in which the forward scan from the start event of index s is
\* left.
HighlightScanFrom(s) ==
    highlight_inner(scoring_events_of(plays_seq),
                    Cardinality({i \in 0..s : IsScoringIndex(i)}),
                    highlight_init, StartSide(s), team_id_to_side)

\* The scoring plays from s on up to which the points against the side
\* starting at s exceed 5.
Blown(s) ==
    {e \in Indices :
        /\ s <= e /\ IsScoringIndex(e)
        /\ SidePoints(OtherSide(StartSide(s)), s, e) > 5}

FirstOf(S) == CHOOSE x \in S : \A y \in S : x <= y

RunsFrom(s) ==
    {p \in 1..Len(highlight_runs) : highlight_runs[p].start_index = s}

\* C13: the forward scan from a start event stops at the first event where
\* the points against exceed 5 (it has counted the events up to that one
\* and no further), and no run of that start ends at or after it; a start
\* event emits at most one run; and every start event for which some end
\* qualifies emits a run, whatever the runs of the other starts.
C13_HighlightStopsAtBlownWindow ==
    pc = "done" =>
      \A s \in Indices :
         IsStartIndex(s) =>
           LET st == HighlightScanFrom(s)
               side == StartSide(s)
               blown == Blown(s)
           IN  /\ IF blown # {}
                  THEN LET b == FirstOf(blown)
                       IN  /\ st.broken
                           /\ st.team_a_score = SidePoints(side, s, b)
                           /\ st.team_b_score
                                 = SidePoints(OtherSide(side), s, b)
                           /\ \A p \in RunsFrom(s) :
                                 highlight_runs[p].end_index < b
                  ELSE ~st.broken
               /\ Cardinality(RunsFrom(s)) <= 1
               /\ (\E e \in Indices :
                      s <= e /\ IsScoringIndex(e) /\ Qualifies(side, s, e))
                     => \E p \in RunsFrom(s) : highlight_runs[p].side = side

\* A scan was stopped by a blown window with plays still to come, and two
\* other starts emitted runs that overlap.
C13_Witness ==
    /\ pc = "done"
    /\ \E s \in Indices :
          /\ IsStartIndex(s)
          /\ Blown(s) # {}
          /\ FirstOf(Blown(s)) < Len(plays_seq) - 1
    /\ \E p, q \in 1..Len(highlight_runs) :
          /\ highlight_runs[p].start_index < highlight_runs[q].start_index
          /\ highlight_runs[q].start_index <= highlight_runs[p].end_index

\* C14: once the teams are resolved, no two team ids map to the same side,
\* the sides occupied are exactly home and away, and no entry of
\* quarter_team_totals and no emitted run is of another side.
C14_ExactlyOneTeamPerSide ==
    pc = "done" =>
      /\ \A t1, t2 \in DOMAIN team_id_to_side :
            team_id_to_side[t1] = team_id_to_side[t2] => t1 = t2
      /\ {team_id_to_side[t] : t \in DOMAIN team_id_to_side} = Sides
      /\ DOMAIN teams_by_side = Sides
      /\ \A p \in DOMAIN quarter_team_totals :
            DOMAIN quarter_team_totals[p] \subseteq Sides
      /\ \A r \in Range(unanswered_runs) \cup Range(net_runs)
                  \cup Range(highlight_runs) : r.side \in Sides

-----------------------------------------------------------------------------
(* The normalizer.                                                         *)

\* C15: the normalizer raises on no play record, whatever field is absent
\* or of an unexpected type: the analysis goes through, and the normalized
\* sequence has one record for each raw play.
C15_NormalizerNeverRaises ==
    pc # "input" =>
       /\ pc = "done"
       /\ Len(plays_seq) = Len(plays_raw)

\* A score field that int() reads: a number, or a string spelling one.
IsNumeric(j) ==
    \/ j.kind = "int"
    \/ j.kind = "str" /\ j.val \in {ToString(n) : n \in 0..MaxNumber}

\* The normalized cumulative scores of the play before the k-th.
PrevHome(k) == IF k = 1 THEN 0 ELSE plays_seq[k - 1].home_score

PrevAway(k) == IF k = 1 THEN 0 ELSE plays_seq[k - 1].away_score

\* C16: a raw play list whose only irregular fields are score fields is
\* normalized without an exception, and in any normalized sequence a play
\* whose homeScore (awayScore) is absent or not numeric has the home_score
\* (away_score) of the record before it, 0 for the first play; the record
\* before it being the normalized one, a carried score is carried on.
C16_UnreadableScoreCarried ==
    /\ (pc # "input" /\ \A k \in 1..Len(plays_raw) :
                           plays_raw[k] \in RawScoreChoices)
          => pc = "done"
    /\ pc = "done" =>
          \A k \in 1..Len(plays_raw) :
             /\ ~IsNumeric(plays_raw[k].homeScore)
                   => plays_seq[k].home_score = PrevHome(k)
             /\ ~IsNumeric(plays_raw[k].awayScore)
                   => plays_seq[k].away_score = PrevAway(k)

\* The second play's homeScore is no number and its awayScore is absent;
\* it carries the scores the first play set.
C16_Witness ==
    /\ pc = "done"
    /\ Len(plays_raw) = 2
    /\ plays_raw[2].homeScore = JStr("abc")
    /\ plays_raw[2].awayScore = JNull
    /\ plays_seq[1].home_score > 0 /\ plays_seq[1].away_score > 0
    /\ plays_seq[2].home_score = plays_seq[1].home_score
    /\ plays_seq[2].away_score = plays_seq[1].away_score

LargestOf(S) == CHOOSE x \in S : \A y \in S : y <= x

\* C17: a scoring play whose scoreValue is absent or not numeric has
\* score_value max(0, home_score - previous home_score, away_score -
\* previous away_score), and a play that is not a scoring play has
\* score_value 0 whatever its scoreValue and its score deltas.
C17_FallbackScoreValue ==
    pc = "done" =>
       \A k \in 1..Len(plays_raw) :
          /\ (~Falsy(plays_raw[k].scoringPlay)
              /\ ~IsNumeric(plays_raw[k].scoreValue))
                => plays_seq[k].score_value =
                      LargestOf({0,
                                 plays_seq[k].home_score - PrevHome(k),
                                 plays_seq[k].away_score - PrevAway(k)})
          /\ Falsy(plays_raw[k].scoringPlay)
                => plays_seq[k].score_value = 0

\* A play that is no scoring play, with scoreValue 2 and a risen home
\* score, got score_value 0; the scoring play after it, without scoreValue,
\* got the 3 points the away score rose by, the home score standing still.
C17_Witness ==
    /\ pc = "done"
    /\ Len(plays_raw) = 2
    /\ Falsy(plays_raw[1].scoringPlay)
    /\ plays_raw[1].scoreValue = JInt(2)
    /\ plays_seq[1].home_score = 2 /\ plays_seq[1].away_score = 0
    /\ plays_seq[1].score_value = 0
    /\ plays_seq[2].scoring_play
    /\ plays_raw[2].scoreValue = JNull
    /\ plays_seq[2].home_score = 2 /\ plays_seq[2].away_score = 3
    /\ plays_seq[2].score_value = 3

\* The totals of the aggregator after the first k plays.
TotalsAfter(k) ==
    quarter_scan(plays_seq, team_id_to_side, players_by_id, k)

\* A play for which no side can be resolved: its team id maps to no side
\* and none of its athletes has one.
HasNoSide(pl) ==
    /\ ResolvedSide(pl) \notin Sides
    /\ \A i \in 1..Len(pl.athlete_ids) :
          player_side(players_by_id, team_id_to_side, pl.athlete_ids[i])
             \notin Sides

\* C18: a play for which no side can be resolved leaves every team-level
\* and every player-level total of the aggregator as it was.
C18_NoSideChangesNoTotal ==
    pc = "done" =>
       \A k \in 1..Len(plays_seq) :
          HasNoSide(plays_seq[k]) => TotalsAfter(k) = TotalsAfter(k - 1)

\* The team-level value of a stat, 0 when the side has no block.
TeamValue(period, side, n) ==
    IF period \in DOMAIN quarter_team_totals
       /\ side \in DOMAIN quarter_team_totals[period]
    THEN quarter_team_totals[period][side][n]
    ELSE 0

\* The sum of a stat over the entries of a set of players in a period.
RECURSIVE PlayerSum(_, _, _)
PlayerSum(period, ids, n) ==
    IF ids = {} THEN 0
    ELSE LET id == CHOOSE x \in ids : TRUE
         IN  quarter_player_totals[period][id].stats[n]
             + PlayerSum(period, ids \ {id}, n)

\* The players with an entry in a period whose side is the given one.
PlayersOfSide(period, side) ==
    IF period \in DOMAIN quarter_player_totals
    THEN {id \in DOMAIN quarter_player_totals[period] :
             quarter_player_totals[period][id].side = side}
    ELSE {}

\* C19: for every period, side and stat, the team-level total is the sum
\* of the stat over the period's player entries of that side.
C19_TeamTotalIsSumOfPlayers ==
    pc = "done" =>
       \A period \in DOMAIN quarter_team_totals
                     \cup DOMAIN quarter_player_totals :
          \A side \in Sides, n \in StatNames :
             TeamValue(period, side, n)
                = PlayerSum(period, PlayersOfSide(period, side), n)

\* The ast counter of a player and of a side in given totals, 0 when there
\* is no entry.
PlayerAst(q, period, id) ==
    IF period \in DOMAIN q.player /\ id \in DOMAIN q.player[period]
    THEN q.player[period][id].stats["ast"]
    ELSE 0

TeamAst(q, period, side) ==
    IF period \in DOMAIN q.team /\ side \in DOMAIN q.team[period]
    THEN q.team[period][side]["ast"]
    ELSE 0

\* The athletes named by the plays, and the periods the plays are in.
Athletes == UNION {Range(plays_seq[k].athlete_ids) : k \in 1..Len(plays_seq)}

PlayPeriods == {plays_seq[k].period : k \in 1..Len(plays_seq)}

\* A made field goal, no free throw, with at least two actors.
IsMadeFieldGoalOfTwo(pl) ==
    /\ pl.scoring_play /\ pl.score_value > 0
    /\ pl.shooting_play /\ pl.points_attempted > 0
    /\ "free throw" \notin pl.play_type_text
    /\ "free throw" \notin pl.text
    /\ Len(pl.athlete_ids) >= 2

\* C20: a play changes an ast counter only if it is a made field goal, no
\* free throw, with at least two actors; the player counter it changes is
\* the one of the second actor, in the play's period, by one, and the team
\* counter that of the second actor's side.
C20_AssistOnlyToSecondActor ==
    pc = "done" =>
       \A k \in 1..Len(plays_seq) :
          LET pl == plays_seq[k]
              before == TotalsAfter(k - 1)
              after == TotalsAfter(k)
          IN  /\ \A period \in PlayPeriods, id \in Athletes :
                    PlayerAst(after, period, id)
                          # PlayerAst(before, period, id)
                       => /\ IsMadeFieldGoalOfTwo(pl)
                          /\ period = pl.period
                          /\ id = pl.athlete_ids[2]
                          /\ PlayerAst(after, period, id)
                                = PlayerAst(before, period, id) + 1
              /\ \A period \in PlayPeriods, side \in Sides :
                    TeamAst(after, period, side)
                          # TeamAst(before, period, side)
                       => /\ IsMadeFieldGoalOfTwo(pl)
                          /\ period = pl.period
                          /\ side = player_side(players_by_id,
                                        team_id_to_side, pl.athlete_ids[2])
                          /\ TeamAst(after, period, side)
                                = TeamAst(before, period, side) + 1

\* An assisted three-pointer gave its second actor an assist, and a free
\* throw by two actors whose text names an assist gave none.
C20_Witness ==
    /\ pc = "done"
    /\ Len(plays_seq) = 2
    /\ IsMadeFieldGoalOfTwo(plays_seq[1])
    /\ plays_seq[1].period = "1"
    /\ PlayerAst(TotalsAfter(1), "1", plays_seq[1].athlete_ids[2]) = 1
    /\ "free throw" \in plays_seq[2].play_type_text
    /\ "assists" \in plays_seq[2].text
    /\ Len(plays_seq[2].athlete_ids) = 2
    /\ plays_seq[2].period = "1"
    /\ \A id \in Athletes :
          PlayerAst(TotalsAfter(2), "1", id)
             = PlayerAst(TotalsAfter(1), "1", id)

\* The bucket of a period in a dict of totals, empty when there is none.
Bucket(d, period) == IF period \in DOMAIN d THEN d[period] ELSE EmptyDict

\* The plays of one period, in order.
PlaysOf(period) == SelectSeq(plays_seq, LAMBDA pl : pl.period = period)

\* C21: a play of period q leaves the team and player buckets of every
\* other period as they were, and the buckets of a period are those the
\* aggregator computes from the plays of that period alone.
C21_PeriodBucketsIndependent ==
    pc = "done" =>
       /\ \A k \in 1..Len(plays_seq) :
             \A p \in PlayedPeriods \ {plays_seq[k].period} :
                /\ Bucket(TotalsAfter(k).team, p)
                      = Bucket(TotalsAfter(k - 1).team, p)
                /\ Bucket(TotalsAfter(k).player, p)
                      = Bucket(TotalsAfter(k - 1).player, p)
       /\ \A p \in PlayedPeriods :
             LET alone == compute_quarter_team_and_player_totals(
                              PlaysOf(p), team_id_to_side, players_by_id)
             IN  /\ Bucket(quarter_team_totals, p) = Bucket(alone.team, p)
                 /\ Bucket(quarter_player_totals, p)
                       = Bucket(alone.player, p)

\* Plays of period 1 and of period 2 alternate, and both periods have team
\* and player buckets.
C21_Witness ==
    /\ pc = "done"
    /\ Len(plays_seq) = 2
    /\ plays_seq[1].period = "2" /\ plays_seq[2].period = "1"
    /\ \A p \in PlayedPeriods :
          /\ p \in DOMAIN quarter_team_totals
          /\ p \in DOMAIN quarter_player_totals
          /\ "h1" \in DOMAIN quarter_player_totals[p]

-----------------------------------------------------------------------------
(* The player map.                                                         *)

\* The athlete entries of a list of stat blocks, in the order of the loops,
\* each with the team of its block.
RECURSIVE FlatStatistics(_, _, _)
FlatStatistics(statistics, team, n) ==
    IF n = 0 THEN <<>>
    ELSE FlatStatistics(statistics, team, n - 1)
         \o [i \in 1..Len(statistics[n]) |->
                [id |-> statistics[n][i].id, name |-> statistics[n][i].name,
                 team |-> team]]

RECURSIVE FlatBoxscore(_, _)
FlatBoxscore(teams_players, n) ==
    IF n = 0 THEN <<>>
    ELSE FlatBoxscore(teams_players, n - 1)
         \o FlatStatistics(teams_players[n].statistics,
                           teams_players[n].team,
                           Len(teams_players[n].statistics))

BoxAthletes == FlatBoxscore(boxscore_players, Len(boxscore_players))

\* The entries of the box score that carry the player id aid.
OccurrencesOf(aid) ==
    { i \in 1..Len(BoxAthletes) :
        /\ BoxAthletes[i].id.kind # "null"
        /\ str_of(BoxAthletes[i].id) = aid }

FirstOccurrenceOf(aid) ==
    CHOOSE i \in OccurrencesOf(aid) : \A j \in OccurrencesOf(aid) : i <= j

TeamIdOf(team) == IF team.kind = "null" THEN None ELSE str_of(team)

\* The box score with one more team block that holds the athlete a.
WithTeamBlock(t, a) ==
    Append(boxscore_players, [team |-> t, statistics |-> << <<a>> >>])

\* The box score with the athlete a at the end of its last stat block.
WithAthleteLast(a) ==
    LET n == Len(boxscore_players)
        m == Len(boxscore_players[n].statistics)
    IN  IF n = 0 \/ m = 0 THEN boxscore_players
        ELSE [boxscore_players EXCEPT
                  ![n].statistics[m] = Append(@, a)]

\* C22: in the player map run_analysis has built, every player id of the
\* box score has the entry of its first occurrence, with the side the team
\* map gives for the team id of that occurrence's team block, and
\* registering an id that is in the map again, at the end of the last stat
\* block or in a further team block, leaves the map as it is.
C22_FirstOccurrenceWins ==
    pc = "done" =>
        /\ DOMAIN players_by_id =
               { aid \in {"4", "5"} : OccurrencesOf(aid) # {} }
        /\ \A aid \in DOMAIN players_by_id :
               LET first == BoxAthletes[FirstOccurrenceOf(aid)]
               IN  players_by_id[aid] =
                       [id |-> aid, name |-> first.name,
                        team_id |-> TeamIdOf(first.team),
                        side |-> Get(team_id_to_side, TeamIdOf(first.team))]
        /\ \A a \in AthleteChoices :
               (a.id.kind # "null" /\ str_of(a.id) \in DOMAIN players_by_id)
               => /\ _build_player_maps(WithAthleteLast(a),
                                        team_id_to_side) = players_by_id
                  /\ \A t \in TeamIdChoices :
                         _build_player_maps(WithTeamBlock(t, a),
                                            team_id_to_side) = players_by_id

\* A player who is listed under the home team first and under the away
\* team, with another name and a numeric id, later: the map has the first.
C22_Witness ==
    /\ pc = "done"
    /\ \E i, j \in OccurrencesOf("4") :
           /\ i < j
           /\ BoxAthletes[i].team = JStr(HomeId)
           /\ BoxAthletes[j].team = JInt(2)
           /\ BoxAthletes[i].name # BoxAthletes[j].name
           /\ BoxAthletes[j].id = JInt(4)
    /\ players_by_id["4"].side = "home"

-----------------------------------------------------------------------------
(* The output file.                                                        *)

\* The analysis of the summary as a whole: what the file holds when every
\* step has run.
FullAnalysis ==
    LET maps == _build_team_maps(competitions)
        map == maps.team_id_to_side
        ex == _extract_basic_play_sequence(plays_raw)
        q == compute_quarter_team_and_player_totals(
                 ex.seq, map, _build_player_maps(boxscore_players, map))
    IN  analysis_out(maps.teams_by_side,
                     compute_quarter_team_points(ex.seq, map),
                     q.team, q.player,
                     compute_unanswered_runs(ex.seq, map),
                     compute_net_runs(ex.seq, map),
                     compute_highlight_runs(ex.seq, map))

AnalysisFails ==
    \/ _build_team_maps(competitions).error
    \/ _extract_basic_play_sequence(plays_raw).error

\* C23: the output file exists only when run_analysis is done, no step has
\* failed, and it holds the results of all the steps; as long as a step is
\* still to run, and when a step has failed, there is no file.
C23_OutputOnlyAfterAllSteps ==
    /\ out_file # <<>> =>
           /\ pc = "done"
           /\ ~AnalysisFails
           /\ out_file[1] = FullAnalysis
    /\ pc = "failed" => AnalysisFails /\ out_file = <<>>
    /\ pc = "done" => out_file # <<>>

\* The file of a game with a basket in it.
C23_Witness ==
    /\ pc = "done"
    /\ out_file # <<>>
    /\ out_file[1].quarter_team_totals # EmptyDict
    /\ out_file[1].quarter_player_totals # EmptyDict
    /\ Len(plays_raw) = MaxRawPlays

-----------------------------------------------------------------------------
(* The net of an open run.                                                 *)

\* The cumulative scores never decrease and change only on scoring plays.
ScoresOnlyRise ==
    \A k \in 1..Len(plays_seq) :
        LET h == IF k = 1 THEN 0 ELSE plays_seq[k - 1].home_score
            a == IF k = 1 THEN 0 ELSE plays_seq[k - 1].away_score
        IN  /\ plays_seq[k].home_score >= h
            /\ plays_seq[k].away_score >= a
            /\ ~plays_seq[k].scoring_play =>
                   plays_seq[k].home_score = h /\ plays_seq[k].away_score = a

\* Play k is a scoring play of the side that owns the run open before it.
OwnerScores(k) ==
    /\ plays_seq[k].scoring_play
    /\ net_scan(plays_seq, team_id_to_side, k - 1).current_side \in Sides
    /\ SideOf(team_id_to_side, plays_seq[k].team_id) =
           net_scan(plays_seq, team_id_to_side, k - 1).current_side

\* The score of the side that does not own the run open before play k is
\* on play k what it was on the play before.
OpponentStands(k) ==
    LET side == net_scan(plays_seq, team_id_to_side, k - 1).current_side
    IN  IF side = "home"
        THEN plays_seq[k].away_score = plays_seq[k - 1].away_score
        ELSE plays_seq[k].home_score = plays_seq[k - 1].home_score

NetNotSmaller(k) ==
    net_scan(plays_seq, team_id_to_side, k).current_net >=
        net_scan(plays_seq, team_id_to_side, k - 1).current_net

\* C24 as stated: when the cumulative scores never decrease and change only
\* on scoring plays, a scoring play of the side that owns the open run
\* leaves the run's net unchanged or larger.
C24_OwnerBasketKeepsNet ==
    (pc = "done" /\ ScoresOnlyRise) =>
        \A k \in 1..Len(plays_seq) : OwnerScores(k) => NetNotSmaller(k)

\* C24 amended: the same, for the owner's scoring plays whose record
\* leaves the other side's score where it was.
C24_OwnerBasketKeepsNetWhenOpponentStands ==
    (pc = "done" /\ ScoresOnlyRise) =>
        \A k \in 1..Len(plays_seq) :
            (OwnerScores(k) /\ OpponentStands(k)) => NetNotSmaller(k)

\* An away run, open, whose net an away basket raises.
C24_Witness ==
    /\ pc = "done"
    /\ ScoresOnlyRise
    /\ \E k \in 1..Len(plays_seq) :
           /\ OwnerScores(k)
           /\ OpponentStands(k)
           /\ net_scan(plays_seq, team_id_to_side, k - 1).current_side
                  = "away"
           /\ net_scan(plays_seq, team_id_to_side, k).current_net >
                  net_scan(plays_seq, team_id_to_side, k - 1).current_net

-----------------------------------------------------------------------------
(* The latest completed game.                                              *)

ScheduleIndices == 1..Len(schedule_events)

\* The completed Thunder games of the schedule.
CompletedGames ==
    { i \in ScheduleIndices :
        schedule_events[i].okc /\ schedule_events[i].completed }

\* Those of them the function can name and date.
DatedCompletedGames ==
    { i \in CompletedGames :
        schedule_events[i].id # <<>> /\ schedule_events[i].time # <<>> }

LatestIn(S) ==
    { i \in S : \A j \in S :
        schedule_events[j].time[1] <= schedule_events[i].time[1] }

-----------------------------------------------------------------------------
(* The two computations of the points of a quarter.                        *)

\* result[period][side] of compute_quarter_team_points, 0 where there is no
\* entry.
PointsValue(period, side) ==
    IF period \in DOMAIN quarter_team_points
    THEN quarter_team_points[period][side]
    ELSE 0

\* C26: for every period and side, the points compute_quarter_team_points
\* gives are the pts compute_quarter_team_and_player_totals gives for that
\* period and side.
C26_QuarterPointsAgree ==
    pc = "done" =>
        \A period \in DOMAIN quarter_team_points
                          \cup DOMAIN quarter_team_totals :
            \A side \in Sides :
                PointsValue(period, side) = TeamValue(period, side, "pts")

-----------------------------------------------------------------------------
(* The counters of a stat block.                                           *)

\* What the claim asks of one stat block.
StatBlockSound(stats) ==
    /\ stats["reb"] = stats["oreb"] + stats["dreb"]
    /\ stats["fgm"] <= stats["fga"]
    /\ stats["tpm"] <= stats["tpa"]
    /\ stats["ftm"] <= stats["fta"]
    /\ stats["tpm"] <= stats["fgm"]
    /\ stats["tpa"] <= stats["fga"]
    /\ \A n \in StatNames : stats[n] >= 0

\* Every team block and every player block of the totals q is sound.
TotalsSound(q) ==
    /\ \A period \in DOMAIN q.team :
           \A side \in DOMAIN q.team[period] :
               StatBlockSound(q.team[period][side])
    /\ \A period \in DOMAIN q.player :
           \A id \in DOMAIN q.player[period] :
               StatBlockSound(q.player[period][id].stats)

\* C27: after every prefix of the play sequence the aggregator has gone
\* through, every team and player stat block has reb = oreb + dreb,
\* fgm <= fga, tpm <= tpa, ftm <= fta, tpm <= fgm, tpa <= fga and no
\* counter below 0; so have the blocks run_analysis puts out.
C27_StatBlocksSound ==
    /\ \A k \in 0..Len(plays_seq) : TotalsSound(TotalsAfter(k))
    /\ pc = "done" =>
           TotalsSound([team |-> quarter_team_totals,
                        player |-> quarter_player_totals])

\* A made three and a defensive rebound by the same player: the block has
\* them in tpm, tpa, fgm, fga and in reb, dreb.
C27_Witness ==
    /\ pc = "done"
    /\ "1" \in DOMAIN quarter_player_totals
    /\ "h1" \in DOMAIN quarter_player_totals["1"]
    /\ LET stats == quarter_player_totals["1"]["h1"].stats
       IN  /\ stats["tpm"] = 1 /\ stats["tpa"] = 1
           /\ stats["fgm"] = 1 /\ stats["fga"] = 1
           /\ stats["reb"] = 1 /\ stats["dreb"] = 1 /\ stats["oreb"] = 0
    /\ TeamValue("1", "home", "reb") = 1

-----------------------------------------------------------------------------
(* The order of the emitted runs.                                          *)

\* Consecutive runs of a list: the later one starts later, and not before
\* the earlier one has ended.
InOrder(runs) ==
    \A i \in 1..(Len(runs) - 1) :
        /\ runs[i].start_index < runs[i + 1].start_index
        /\ runs[i].end_index <= runs[i + 1].start_index

\* C28: the lists of unanswered runs and of net runs are chronological and
\* consecutive runs overlap in one play at most, the play that ends the
\* earlier run and starts the later one.
C28_RunsInOrder ==
    pc = "done" => InOrder(unanswered_runs) /\ InOrder(net_runs)

\* Two unanswered runs and two net runs, the second of each starting on the
\* play the first ends on.
C28_Witness ==
    /\ pc = "done"
    /\ Len(unanswered_runs) >= 2
    /\ Len(net_runs) >= 2
    /\ unanswered_runs[1].end_index = unanswered_runs[2].start_index
    /\ net_runs[1].end_index = net_runs[2].start_index

-----------------------------------------------------------------------------
(* The caller's context.                                                   *)

\* C29: the function returns a context that is not the caller's object,
\* and the caller's context, with what it holds under quarters_and_runs,
\* has after the call the value it had before.
C29_CallerContextUnchanged ==
    pc = "done" =>
        /\ returned_ctx # caller_ctx
        /\ <<DeepValue(heap, caller_ctx[1])>> = ctx_given

-----------------------------------------------------------------------------
(* The automatic report.                                                   *)

\* A recipient value that names nobody: None, or nothing but blanks and
\* commas.
NamesNobody(value) ==
    \/ value = <<>>
    \/ \A i \in 1..Len(value[1]) : value[1][i] \in {" ", ","}

\* The run cannot go ahead: a credential is missing or empty, or the
\* recipient value the run uses names nobody.
MustExit ==
    /\ mail_env # <<>>
    /\ \/ mail_env[1].gmail_user \in {None, ""}
       \/ mail_env[1].gmail_app_password \in {None, ""}
       \/ NamesNobody(recipient_value(mail_env[1]))

Happened(e) == \E i \in 1..Len(effects) : effects[i] = e

Before(e, f) ==
    \E i, j \in 1..Len(effects) : i < j /\ effects[i] = e /\ effects[j] = f

\* C30: with a credential missing or no recipient left after trimming, the
\* run exits at its checks and nothing is fetched, written or sent; and
\* when an email has gone out, the summary was fetched and cached and the
\* report written before it, and the summary file was there.
C30_ChecksBeforeEffects ==
    /\ MustExit => effects = <<>> /\ pc \in {"input", "exit"}
    /\ Happened("email") =>
           /\ Before("fetch", "email")
           /\ Before("cache", "email")
           /\ Before("html", "email")
           /\ summary_file
           /\ pc = "done"
           /\ recipient_list # <<>>

\* A run whose --to has an address among blanks and commas: the email goes
\* out to that one address.
C30_Witness ==
    /\ pc = "done"
    /\ Happened("email")
    /\ mail_env[1].recipients = << <<" ", "a", " ", ",">> >>
    /\ recipient_list = << <<"a">> >>

=============================================================================
